---- MODULE Spec2Model ----
(***************************************************************************)
(* Model of the Firestore event store of emmett-firestore: appendToStream  *)
(* (one Firestore transaction per call), readStream (two separate reads)   *)
(* and the documents they touch: streams/{name}, streams/{name}/events/{id} *)
(* and _counters/global_position; aggregateStream (a read and a fold);     *)
(* and the polling consumer firestoreEventStoreConsumer with its           *)
(* checkpoint document _checkpoints/{consumerId}, each await of its code   *)
(* being a step of its own.                                                *)
(*                                                                         *)
(* Event payloads (data, metadata) are copied verbatim by the code and are *)
(* represented by the event type alone; timestamps (new Date()) are left   *)
(* out of the documents.                                                   *)
(***************************************************************************)
EXTENDS Integers, Sequences, FiniteSets, TLC

VARIABLES
    streamDocs,   \* streams/{streamName}: NoDoc or [version |-> n]
    eventDocs,    \* streams/{streamName}/events: document id -> event document
    counterDoc,   \* _counters/global_position: NoDoc or [value |-> n]
    appendPc,     \* position of each appendToStream caller
    appendCall,   \* arguments of the call in progress (or of the last call)
    appendTx,     \* documents read by the running transaction attempt
    appendResult, \* what the last finished call returned or threw
    readPc,       \* position of each readStream caller
    readCall,     \* arguments of the read in progress (or of the last read)
    readSnap,     \* the stream document fetched by the first get() of a read
    readResult,   \* what the last finished read returned
    aggPc,        \* position of each aggregateStream caller
    aggCall,      \* arguments of the aggregation in progress (or of the last)
    aggSnap,      \* the stream document fetched by the aggregation's read
    aggResult,    \* what the last finished aggregation returned
    checkpointDoc,         \* _checkpoints/{consumerId}: NoDoc or [position]
    isRunning,             \* the consumer's running flag
    pollingTimer,          \* the consumer's timer handle: Undefined or the
                           \* chain whose setTimeout returned it
    lastProcessedPosition, \* the consumer's in-memory position
    chain,                 \* the consumer's asynchronous activities: a
                           \* start() loading, a poll in flight, a timer
    delivered,             \* history: global positions of the events of the
                           \* page attempts in which every processor returned
    resumePoint,           \* history: the checkpoint document found when
                           \* the present consumer instance was created
    registered,            \* config.processors of the present consumer
    lastCall,              \* history: the last call of start() or stop()
                           \* and, for start(), the error it threw
    projection,            \* the name of the registered projection
    documents,             \* Realtime Database: document id -> value or null
    handler,               \* the processor's handle(events) call in flight
    projected              \* history: the events handed to handle() so far
                           \* and the call before the present one

storeVars == <<streamDocs, eventDocs, counterDoc>>
appendVars == <<appendPc, appendCall, appendTx, appendResult>>
readVars == <<readPc, readCall, readSnap, readResult>>
aggVars == <<aggPc, aggCall, aggSnap, aggResult>>
consumerVars == <<checkpointDoc, isRunning, pollingTimer,
                  lastProcessedPosition, chain, delivered, resumePoint,
                  registered, lastCall>>
projVars == <<projection, documents, handler, projected>>
vars == <<streamDocs, eventDocs, counterDoc, appendPc, appendCall, appendTx,
          appendResult, readPc, readCall, readSnap, readResult,
          aggPc, aggCall, aggSnap, aggResult,
          checkpointDoc, isRunning, pollingTimer, lastProcessedPosition,
          chain, delivered, resumePoint, registered, lastCall,
          projection, documents, handler, projected>>

----------------------------------------------------------------------------
(* Bounds of the model *)

\* longest batch a caller passes to appendToStream (0 = the empty batch)
MaxBatch == 2
\* no call is started that would take the global counter beyond this value
MaxCounter == 3
\* largest exact expected version an appender passes
MaxExpectedArg == 0
\* largest from / to a reader passes
MaxWindowArg == 1
\* largest maxCount a reader passes
MaxCountArg == 1
\* the consumer's retry budget (config.maxRetries)
maxRetries == 2
\* most events handed to the processor of a projection, redeliveries
\* included
MaxProjected == 3

StreamNames == {"s1", "s2"}
Appenders == {"a1", "a2"}
Readers == {"r1"}
Aggregators == {"g1"}
PollChains == {"k1", "k2"}

----------------------------------------------------------------------------
(* Values *)

\* a missing document (snapshot.exists = false) and a missing option
NoDoc == [exists |-> FALSE]
Undefined == [undefined |-> TRUE]
None == [none |-> TRUE]

\* bigint values are tagged so that they never equal a string sentinel,
\* as with === between a bigint and a string
BigInt(n) == [bigint |-> n]
IsBigInt(v) == DOMAIN v = {"bigint"}

STREAM_DOES_NOT_EXIST == [const |-> "STREAM_DOES_NOT_EXIST"]
STREAM_EXISTS == [const |-> "STREAM_EXISTS"]
NO_CONCURRENCY_CHECK == [const |-> "NO_CONCURRENCY_CHECK"]

\* width of the zero-padded event document id
PadWidth == 10

\* String(n) for n >= 0: the decimal digits, most significant first
RECURSIVE String(_)
String(n) == IF n < 10 THEN <<n>> ELSE String(n \div 10) \o <<n % 10>>

\* str.padStart(targetLength, padChar): pads on the left, never truncates
PadStart(str, targetLength, padChar) ==
    IF Len(str) >= targetLength THEN str
    ELSE [i \in 1..(targetLength - Len(str)) |-> padChar] \o str

\* document id of the event with stream version n
EventId(n) == PadStart(String(n), PadWidth, 0)

\* order of document ids (__name__): lexicographic, a proper prefix first
RECURSIVE NameLess(_, _)
NameLess(x, y) ==
    IF Len(y) = 0 THEN FALSE
    ELSE IF Len(x) = 0 THEN TRUE
    ELSE IF Head(x) # Head(y) THEN Head(x) < Head(y)
    ELSE NameLess(Tail(x), Tail(y))

NameLeq(x, y) == x = y \/ NameLess(x, y)

----------------------------------------------------------------------------
(* The store's documents *)

StreamDoc(version) == [exists |-> TRUE, version |-> version]
CounterDoc(value) == [exists |-> TRUE, value |-> value]
EventDoc(type, globalPosition, streamVersion) ==
    [type |-> type, globalPosition |-> globalPosition,
     streamVersion |-> streamVersion]

NoEvents == [id \in {} |-> None]

NoResult == [status |-> "none"]
NoCall == [status |-> "none"]

\* the type of the i-th event of a batch: the callers' batches walk through
\* the event types in this order, so that a batch's order shows in the store
BatchType(i) ==
    CASE i % 3 = 1 -> "ShoppingCartOpened"
      [] i % 3 = 2 -> "ProductAdded"
      [] OTHER -> "ShoppingCartConfirmed"

\* every batch a caller may pass, the empty one too
Batches == {[i \in 1..n |-> BatchType(i)] : n \in 0..MaxBatch}

\* every expectedStreamVersion a caller may pass in the options
ExpectedVersions ==
    {Undefined, NO_CONCURRENCY_CHECK, STREAM_EXISTS, STREAM_DOES_NOT_EXIST}
        \cup {BigInt(n) : n \in 0..MaxExpectedArg}

----------------------------------------------------------------------------
(* appendToStream *)

\* options?.expectedStreamVersion ?? NO_CONCURRENCY_CHECK
DefaultExpectedVersion(expectedStreamVersion) ==
    IF expectedStreamVersion = Undefined THEN NO_CONCURRENCY_CHECK
    ELSE expectedStreamVersion

\* currentVersion as the transaction computes it from the stream document
CurrentVersion(streamDoc) ==
    IF streamDoc.exists THEN BigInt(streamDoc.version)
    ELSE STREAM_DOES_NOT_EXIST

\* mutant: the check without its must-exist branch
VersionConflictNoMustExist(expectedStreamVersion, streamDoc) ==
    LET streamExists == streamDoc.exists
        currentVersion == CurrentVersion(streamDoc)
    IN  /\ expectedStreamVersion # currentVersion
        /\ \/ expectedStreamVersion = STREAM_DOES_NOT_EXIST /\ streamExists
           \/ IsBigInt(expectedStreamVersion)
                /\ expectedStreamVersion # currentVersion

\* the optimistic concurrency check: TRUE when the transaction throws
\* ExpectedVersionConflictError
VersionConflict(expectedStreamVersion, streamDoc) ==
    LET streamExists == streamDoc.exists
        currentVersion == CurrentVersion(streamDoc)
    IN  /\ expectedStreamVersion # currentVersion
        /\ \/ expectedStreamVersion = STREAM_DOES_NOT_EXIST /\ streamExists
           \/ expectedStreamVersion = STREAM_EXISTS /\ ~streamExists
           \/ IsBigInt(expectedStreamVersion)
                /\ expectedStreamVersion # currentVersion

\* getNextGlobalPosition: the first position of the reserved block
NextPosition(counterSnap) ==
    IF counterSnap.exists THEN counterSnap.value ELSE 0

\* mutant: the counter advances by one per call, not by the batch length
ReservedCounterByOne(counterSnap, count) ==
    CounterDoc(NextPosition(counterSnap) + 1)

\* getNextGlobalPosition: the counter document written by the transaction
ReservedCounter(counterSnap, count) ==
    CounterDoc(NextPosition(counterSnap) + count)

\* mutant: the batch starts at the current version, not after it
NextVersionAtCurrent(streamDoc) ==
    IF IsBigInt(CurrentVersion(streamDoc))
    THEN CurrentVersion(streamDoc).bigint
    ELSE 0

\* nextVersion: the stream version of the first event of the batch
NextVersion(streamDoc) ==
    IF IsBigInt(CurrentVersion(streamDoc))
    THEN CurrentVersion(streamDoc).bigint + 1
    ELSE 0

\* mutant: the global position does not advance within a batch
RECURSIVE SetEventsOnePosition(_, _, _)
SetEventsOnePosition(events, streamVersion, currentGlobalPosition) ==
    IF events = <<>> THEN NoEvents
    ELSE SetEventsOnePosition(Tail(events), streamVersion + 1,
                              currentGlobalPosition)
            @@ (EventId(streamVersion) :>
                    EventDoc(Head(events), currentGlobalPosition, streamVersion))

\* the loop over the batch: one transaction.set per event, keyed by the
\* padded stream version; streamVersion and currentGlobalPosition advance
\* by one per event
RECURSIVE SetEvents(_, _, _)
SetEvents(events, streamVersion, currentGlobalPosition) ==
    IF events = <<>> THEN NoEvents
    ELSE SetEvents(Tail(events), streamVersion + 1, currentGlobalPosition + 1)
            @@ (EventId(streamVersion) :>
                    EventDoc(Head(events), currentGlobalPosition, streamVersion))

\* mutant: the version after the loop, without the decrement
NewStreamVersionNoDecrement(streamDoc, events) ==
    NextVersion(streamDoc) + Len(events)

\* newStreamVersion = streamVersion - 1n after the loop
NewStreamVersion(streamDoc, events) ==
    NextVersion(streamDoc) + Len(events) - 1

\* the value the transaction function returns
AppendOk(streamDoc, events) ==
    [status |-> "ok",
     nextExpectedStreamVersion |-> NewStreamVersion(streamDoc, events),
     createdNewStream |-> ~streamDoc.exists]

\* mutant: the error's arguments swapped
ConflictErrorSwapped(current, expected) ==
    [status |-> "ExpectedVersionConflictError",
     current |-> expected, expected |-> current]

ConflictError(current, expected) ==
    [status |-> "ExpectedVersionConflictError",
     current |-> current, expected |-> expected]

EmptyBatchError ==
    [status |-> "Error", message |-> "Cannot append empty events array"]

\* mutant: no empty-batch check
IsEmptyBatchNever(events) == FALSE

\* events.length === 0
IsEmptyBatch(events) == Len(events) = 0

\* positions that the running transactions will reserve when they commit
RECURSIVE InFlightOf(_)
InFlightOf(as) ==
    IF as = {} THEN 0
    ELSE LET a == CHOOSE x \in as : TRUE
         IN  (IF appendPc[a] \in {"txGetStream", "txGetCounter", "txCommit"}
              THEN Len(appendCall[a].events) ELSE 0) + InFlightOf(as \ {a})

InFlight == InFlightOf(Appenders)

\* eventStore.appendToStream(streamName, events, options): the default of
\* the expected version, the empty-batch check, then runTransaction
AppendToStream(a, streamName, events, expectedStreamVersion) ==
    /\ appendPc[a] \in {"idle", "done"}
    /\ NextPosition(counterDoc) + InFlight + Len(events) <= MaxCounter
    /\ appendCall' = [appendCall EXCEPT ![a] =
            [status |-> "called", streamName |-> streamName, events |-> events,
             given |-> expectedStreamVersion,
             expectedStreamVersion |->
                 DefaultExpectedVersion(expectedStreamVersion)]]
    /\ appendTx' = [appendTx EXCEPT ![a] = None]
    /\ IF IsEmptyBatch(events)
       THEN /\ appendResult' = [appendResult EXCEPT ![a] = EmptyBatchError]
            /\ appendPc' = [appendPc EXCEPT ![a] = "done"]
       ELSE /\ appendResult' = [appendResult EXCEPT ![a] = NoResult]
            /\ appendPc' = [appendPc EXCEPT ![a] = "txGetStream"]
    /\ UNCHANGED <<storeVars, readVars, aggVars, projVars, consumerVars>>

\* transaction.get(streamRef) and the optimistic concurrency check; a throw
\* leaves the transaction function before anything is written
TxGetStream(a) ==
    /\ appendPc[a] = "txGetStream"
    /\ LET streamDoc == streamDocs[appendCall[a].streamName]
           expected == appendCall[a].expectedStreamVersion
       IN  IF VersionConflict(expected, streamDoc)
           THEN /\ appendResult' = [appendResult EXCEPT ![a] =
                        ConflictError(CurrentVersion(streamDoc), expected)]
                /\ appendPc' = [appendPc EXCEPT ![a] = "done"]
                /\ appendTx' = [appendTx EXCEPT ![a] = None]
           ELSE /\ appendTx' = [appendTx EXCEPT ![a] =
                        [streamDoc |-> streamDoc, counterDoc |-> None]]
                /\ appendPc' = [appendPc EXCEPT ![a] = "txGetCounter"]
                /\ UNCHANGED appendResult
    /\ UNCHANGED <<storeVars, appendCall, readVars, aggVars, projVars, consumerVars>>

\* getNextGlobalPosition: transaction.get(counterRef)
TxGetCounter(a) ==
    /\ appendPc[a] = "txGetCounter"
    /\ appendTx' = [appendTx EXCEPT ![a].counterDoc = counterDoc]
    /\ appendPc' = [appendPc EXCEPT ![a] = "txCommit"]
    /\ UNCHANGED <<storeVars, appendCall, appendResult, readVars, aggVars, projVars, consumerVars>>

\* mutant: no isolation, a commit never finds its reads stale
TxReadsUnchecked(a) == TRUE

\* the transaction's reads are still current: no other transaction has
\* committed a write to a document this one has read
TxReadsCurrent(a) ==
    /\ streamDocs[appendCall[a].streamName] = appendTx[a].streamDoc
    /\ counterDoc = appendTx[a].counterDoc

\* the event documents after the transaction's sets
CommittedEvents(stored, streamDoc, counterSnap, events) ==
    SetEvents(events, NextVersion(streamDoc), NextPosition(counterSnap))
        @@ stored

\* mutant: the metadata version advances by one per call
CommittedStreamOneStep(streamDoc, events) ==
    StreamDoc(NextVersion(streamDoc))

\* the stream document after the merge-set of the new version
CommittedStream(streamDoc, events) ==
    StreamDoc(NewStreamVersion(streamDoc, events))

\* commit: the counter update, every event set and the stream metadata set
\* are applied together, and the call returns
TxCommit(a) ==
    /\ appendPc[a] = "txCommit"
    /\ TxReadsCurrent(a)
    /\ LET s == appendCall[a].streamName
           events == appendCall[a].events
           tx == appendTx[a]
       IN  /\ counterDoc' = ReservedCounter(tx.counterDoc, Len(events))
           /\ eventDocs' = [eventDocs EXCEPT ![s] =
                    CommittedEvents(@, tx.streamDoc, tx.counterDoc, events)]
           /\ streamDocs' = [streamDocs EXCEPT ![s] =
                    CommittedStream(tx.streamDoc, events)]
           /\ appendResult' = [appendResult EXCEPT ![a] =
                    AppendOk(tx.streamDoc, events)]
    /\ appendPc' = [appendPc EXCEPT ![a] = "done"]
    /\ appendTx' = [appendTx EXCEPT ![a] = None]
    /\ UNCHANGED <<appendCall, readVars, aggVars, projVars, consumerVars>>

\* contention: a document this transaction has read was written by another
\* transaction, so runTransaction discards the attempt and runs the
\* transaction function again
TxRerun(a) ==
    /\ appendPc[a] = "txCommit"
    /\ ~TxReadsCurrent(a)
    /\ appendPc' = [appendPc EXCEPT ![a] = "txGetStream"]
    /\ appendTx' = [appendTx EXCEPT ![a] = None]
    /\ UNCHANGED <<storeVars, appendCall, appendResult, readVars, aggVars, projVars, consumerVars>>

----------------------------------------------------------------------------
(* readStream *)

\* the options a reader may pass: each of from, to, maxCount given or not
ReadOptions ==
    [from : {Undefined} \cup {BigInt(n) : n \in 0..MaxWindowArg},
     to : {Undefined} \cup {BigInt(n) : n \in 0..MaxWindowArg},
     maxCount : {Undefined} \cup {BigInt(n) : n \in 1..MaxCountArg}]

\* mutant: descending order
RECURSIVE OrderByNameDesc(_)
OrderByNameDesc(ids) ==
    IF ids = {} THEN <<>>
    ELSE LET first == CHOOSE x \in ids : \A y \in ids : NameLeq(y, x)
         IN  <<first>> \o OrderByNameDesc(ids \ {first})

\* orderBy('__name__', 'asc') over a set of document ids
RECURSIVE OrderByName(_)
OrderByName(ids) ==
    IF ids = {} THEN <<>>
    ELSE LET first == CHOOSE x \in ids : \A y \in ids : NameLeq(x, y)
         IN  <<first>> \o OrderByName(ids \ {first})

\* mutant: the limit lets one more document through
LimitOneMore(docs, n) ==
    IF Len(docs) <= n + 1 THEN docs ELSE SubSeq(docs, 1, n + 1)

\* query.limit(n)
Limit(docs, n) == IF Len(docs) <= n THEN docs ELSE SubSeq(docs, 1, n)

\* mutant: from is an exclusive lower end
QueryEventsFromExclusive(stored, options) ==
    LET fromOk(id) == \/ ~IsBigInt(options.from)
                      \/ NameLess(EventId(options.from.bigint), id)
        toOk(id) == \/ ~IsBigInt(options.to)
                    \/ NameLeq(id, EventId(options.to.bigint))
        ordered == OrderByName({id \in DOMAIN stored : fromOk(id) /\ toOk(id)})
        limited == IF options.maxCount = Undefined THEN ordered
                   ELSE Limit(ordered, options.maxCount.bigint)
    IN  [i \in 1..Len(limited) |-> stored[limited[i]]]

\* the events query: the ids of the stream's event documents in name order,
\* filtered by the padded from/to ids and cut at maxCount
QueryEvents(stored, options) ==
    LET fromOk(id) == \/ ~IsBigInt(options.from)
                      \/ NameLeq(EventId(options.from.bigint), id)
        toOk(id) == \/ ~IsBigInt(options.to)
                    \/ NameLeq(id, EventId(options.to.bigint))
        ordered == OrderByName({id \in DOMAIN stored : fromOk(id) /\ toOk(id)})
        limited == IF options.maxCount = Undefined THEN ordered
                   ELSE Limit(ordered, options.maxCount.bigint)
    IN  [i \in 1..Len(limited) |-> stored[limited[i]]]

\* a stored event document as readStream returns it
ReadEvent(streamName, data) ==
    [type |-> data.type,
     metadata |-> [streamName |-> streamName,
                   streamPosition |-> BigInt(data.streamVersion),
                   globalPosition |-> BigInt(data.globalPosition)]]

\* mutant: an absent stream reported as an existing, empty one
StreamNotFoundAsEmpty ==
    [status |-> "ok", currentStreamVersion |-> BigInt(0),
     events |-> <<>>, streamExists |-> TRUE]

\* the result for a stream document that does not exist
StreamNotFound ==
    [status |-> "ok", currentStreamVersion |-> STREAM_DOES_NOT_EXIST,
     events |-> <<>>, streamExists |-> FALSE]

\* the result for a stream document that exists and the queried documents
StreamRead(streamName, streamDoc, docs) ==
    [status |-> "ok", currentStreamVersion |-> BigInt(streamDoc.version),
     events |-> [i \in 1..Len(docs) |-> ReadEvent(streamName, docs[i])],
     streamExists |-> TRUE]

\* readStream up to the existence check: streamRef.get(), and the early
\* return when the stream document does not exist
ReadStream(r, streamName, options) ==
    /\ readPc[r] \in {"idle", "done"}
    /\ readCall' = [readCall EXCEPT ![r] =
            [status |-> "called", streamName |-> streamName,
             options |-> options]]
    /\ IF ~streamDocs[streamName].exists
       THEN /\ readResult' = [readResult EXCEPT ![r] = StreamNotFound]
            /\ readSnap' = [readSnap EXCEPT ![r] = None]
            /\ readPc' = [readPc EXCEPT ![r] = "done"]
       ELSE /\ readResult' = [readResult EXCEPT ![r] = NoResult]
            /\ readSnap' = [readSnap EXCEPT ![r] = streamDocs[streamName]]
            /\ readPc' = [readPc EXCEPT ![r] = "query"]
    /\ UNCHANGED <<storeVars, appendVars, aggVars, projVars, consumerVars>>

\* readStream from the events query on: query.get(), the mapping of the
\* documents and the result, with the version of the stream document
\* that was fetched first
ReadQuery(r) ==
    /\ readPc[r] = "query"
    /\ LET s == readCall[r].streamName
       IN  readResult' = [readResult EXCEPT ![r] =
                StreamRead(s, readSnap[r],
                           QueryEvents(eventDocs[s], readCall[r].options))]
    /\ readSnap' = [readSnap EXCEPT ![r] = None]
    /\ readPc' = [readPc EXCEPT ![r] = "done"]
    /\ UNCHANGED <<storeVars, appendVars, readCall, aggVars, projVars, consumerVars>>

----------------------------------------------------------------------------
(* aggregateStream *)

\* initialState() of the shopping cart aggregation
InitialState == [customerId |-> "", items |-> <<>>, status |-> "open"]

\* evolve of the shopping cart aggregation: the payload of an event is
\* represented by its type, so every opened cart has the same customer and
\* every added product is the same item; an unknown type leaves the state
Evolve(state, event) ==
    CASE event.type = "ShoppingCartOpened" ->
            [state EXCEPT !.customerId = "customer"]
      [] event.type = "ProductAdded" ->
            [state EXCEPT !.items = Append(@, "product")]
      [] event.type = "ShoppingCartConfirmed" ->
            [state EXCEPT !.status = "confirmed"]
      [] OTHER -> state

\* mutant: the events are folded from the last to the first
RECURSIVE FoldEventsReversed(_, _)
FoldEventsReversed(acc, events) ==
    IF events = <<>> THEN acc
    ELSE FoldEventsReversed(
            [state |-> Evolve(acc.state, events[Len(events)]),
             evolveCalls |-> Append(acc.evolveCalls, events[Len(events)])],
            SubSeq(events, 1, Len(events) - 1))

\* the loop over result.events: state = evolve(state, event) for each
\* event in turn; evolveCalls records the events evolve was invoked with
RECURSIVE FoldEvents(_, _)
FoldEvents(acc, events) ==
    IF events = <<>> THEN acc
    ELSE FoldEvents([state |-> Evolve(acc.state, Head(events)),
                     evolveCalls |-> Append(acc.evolveCalls, Head(events))],
                    Tail(events))

\* mutant: the absent stream aggregated as an existing, empty one
AggregateNotFoundAsEmpty ==
    [status |-> "ok", state |-> InitialState,
     currentStreamVersion |-> BigInt(0), streamExists |-> TRUE,
     evolveCalls |-> <<>>]

\* the result for a stream that does not exist
AggregateNotFound ==
    [status |-> "ok", state |-> InitialState,
     currentStreamVersion |-> STREAM_DOES_NOT_EXIST, streamExists |-> FALSE,
     evolveCalls |-> <<>>]

\* aggregateStream after its readStream has returned result
Aggregate(result) ==
    IF result.currentStreamVersion = STREAM_DOES_NOT_EXIST
    THEN AggregateNotFound
    ELSE LET folded == FoldEvents([state |-> InitialState,
                                   evolveCalls |-> <<>>], result.events)
         IN  [status |-> "ok", state |-> folded.state,
              currentStreamVersion |-> result.currentStreamVersion,
              streamExists |-> TRUE, evolveCalls |-> folded.evolveCalls]

\* aggregateStream up to the first get of its readStream, and to the end
\* when the stream document does not exist
AggregateStream(g, streamName, read) ==
    /\ aggPc[g] \in {"idle", "done"}
    /\ aggCall' = [aggCall EXCEPT ![g] =
            [status |-> "called", streamName |-> streamName, read |-> read]]
    /\ IF ~streamDocs[streamName].exists
       THEN /\ aggResult' = [aggResult EXCEPT ![g] = Aggregate(StreamNotFound)]
            /\ aggSnap' = [aggSnap EXCEPT ![g] = None]
            /\ aggPc' = [aggPc EXCEPT ![g] = "done"]
       ELSE /\ aggResult' = [aggResult EXCEPT ![g] = NoResult]
            /\ aggSnap' = [aggSnap EXCEPT ![g] = streamDocs[streamName]]
            /\ aggPc' = [aggPc EXCEPT ![g] = "query"]
    /\ UNCHANGED <<storeVars, appendVars, readVars, consumerVars, projVars>>

\* aggregateStream from the events query of its readStream on: the query,
\* the read's result and the fold over its events
AggregateQuery(g) ==
    /\ aggPc[g] = "query"
    /\ LET s == aggCall[g].streamName
       IN  aggResult' = [aggResult EXCEPT ![g] =
                Aggregate(StreamRead(s, aggSnap[g],
                              QueryEvents(eventDocs[s], aggCall[g].read)))]
    /\ aggSnap' = [aggSnap EXCEPT ![g] = None]
    /\ aggPc' = [aggPc EXCEPT ![g] = "done"]
    /\ UNCHANGED <<storeVars, appendVars, readVars, aggCall, consumerVars,
                   projVars>>

----------------------------------------------------------------------------
(* firestoreEventStoreConsumer *)

\* config.processors: the registered processors, in registration order
processors == <<"p1", "p2">>

\* config.onError is given
onError == TRUE

\* the page size of the poll's query
PageLimit == 100

\* position.toString() of a bigint and BigInt(str) of a decimal string
PositionToString(position) == String(position.bigint)

RECURSIVE ParseBigInt(_)
ParseBigInt(str) ==
    IF Len(str) = 0 THEN 0
    ELSE 10 * ParseBigInt(SubSeq(str, 1, Len(str) - 1)) + str[Len(str)]

\* the document saveCheckpoint sets
CheckpointDoc(position) == [exists |-> TRUE, position |-> PositionToString(position)]

\* mutant: the checkpoint document is ignored
LoadCheckpointFromStart(doc) == Undefined

\* loadCheckpoint: undefined without a document or with an empty position
LoadCheckpoint(doc) ==
    IF ~doc.exists THEN Undefined
    ELSE IF Len(doc.position) > 0 THEN BigInt(ParseBigInt(doc.position))
    ELSE Undefined

\* the handle setTimeout returns for the timer of chain c
Timeout(c) == [timeout |-> c]

\* collectionGroup('events'): the event documents of all streams, each
\* named by its stream and its id
EventRefs ==
    UNION {{<<s, id>> : id \in DOMAIN eventDocs[s]} : s \in StreamNames}

RefData(ref) == eventDocs[ref[1]][ref[2]]

\* orderBy('globalPosition', 'asc')
RECURSIVE OrderByGlobalPosition(_)
OrderByGlobalPosition(refs) ==
    IF refs = {} THEN <<>>
    ELSE LET first == CHOOSE x \in refs : \A y \in refs :
                          RefData(x).globalPosition <= RefData(y).globalPosition
         IN  <<first>> \o OrderByGlobalPosition(refs \ {first})

\* an event document as the poll hands it to the processors: the stream
\* name comes from the document's path
PollEvent(ref) ==
    [type |-> RefData(ref).type,
     metadata |-> [streamName |-> ref[1],
                   streamPosition |-> BigInt(RefData(ref).streamVersion),
                   globalPosition |-> BigInt(RefData(ref).globalPosition)]]

\* the poll's query, built with the in-memory position after
PollEvents(after) ==
    LET matching == {ref \in EventRefs :
                        \/ after = Undefined
                        \/ RefData(ref).globalPosition > after.bigint}
        docs == Limit(OrderByGlobalPosition(matching), PageLimit)
    IN  [i \in 1..Len(docs) |-> PollEvent(docs[i])]

\* mutant: the position after the last document of a page
LastPositionPlusOne(page) ==
    BigInt(page[Len(page)].metadata.globalPosition.bigint + 1)

\* the global position of the last document of a page
LastPosition(page) == page[Len(page)].metadata.globalPosition

\* the global positions of the events of a page
Positions(page) == {page[i].metadata.globalPosition.bigint : i \in 1..Len(page)}

\* an unused chain: after is the position its query was built with, page
\* the events of its query, attempt the argument of processWithRetry, index
\* the processor (or, in the error hook, the event) awaited; calls and
\* fails count, per processor, the invocations of handle for the page and
\* those that threw, hooks the invocations of onError
FreeChain ==
    [pc |-> "free", after |-> Undefined, page |-> <<>>, attempt |-> 0,
     index |-> 0, calls |-> [i \in 1..Len(processors) |-> 0],
     fails |-> [i \in 1..Len(processors) |-> 0], hooks |-> 0]

\* poll() up to query.get(), entered with isRunning true
PollBegins(c, after) ==
    chain' = [chain EXCEPT ![c] =
                [FreeChain EXCEPT !.pc = "query", !.after = after]]

\* mutant: no next poll is scheduled
ScheduledNever(c) ==
    /\ chain' = [chain EXCEPT ![c] = FreeChain]
    /\ pollingTimer' = pollingTimer

\* the end of poll(): the next poll is scheduled if the consumer runs
Scheduled(c) ==
    /\ chain' = [chain EXCEPT ![c] =
            IF isRunning THEN [FreeChain EXCEPT !.pc = "timer"]
            ELSE FreeChain]
    /\ pollingTimer' = IF isRunning THEN Timeout(c) ELSE pollingTimer

\* the last call recorded: start() with the error it threw (None while
\* it has thrown nothing) and stop()
StartCall(error) == [op |-> "start", error |-> error]
StopCall == [op |-> "stop"]

\* a new consumer object for the same consumerId with the given
\* config.processors, created once the former one has stopped and has
\* nothing in flight
CreateConsumer(configProcessors) ==
    /\ ~isRunning
    /\ \A c \in PollChains : chain[c].pc = "free"
    /\ lastProcessedPosition' = Undefined
    /\ pollingTimer' = Undefined
    /\ resumePoint' = checkpointDoc
    /\ registered' = configProcessors
    /\ lastCall' = NoCall
    /\ UNCHANGED <<storeVars, appendVars, readVars, aggVars, projVars, checkpointDoc,
                   isRunning, chain, delivered>>

\* a new consumer object with the processors of the model
FirestoreEventStoreConsumer == CreateConsumer(processors)

\* the configs handed to the event store's consumer factory: none, one
\* without a consumerId, one with an empty consumerId, and configs with a
\* consumerId, with and without processors
ConsumerConfigs ==
    {Undefined,
     [processors |-> <<>>],
     [consumerId |-> "", processors |-> processors],
     [consumerId |-> "consumer1", processors |-> processors],
     [consumerId |-> "consumer1", processors |-> <<>>],
     [consumerId |-> "consumer1"]}

\* mutant: an empty consumerId is accepted
NoConsumerIdKey(consumerConfig) ==
    IF consumerConfig = Undefined THEN TRUE
    ELSE "consumerId" \notin DOMAIN consumerConfig

\* !consumerConfig?.consumerId
NoConsumerId(consumerConfig) ==
    IF consumerConfig = Undefined THEN TRUE
    ELSE IF "consumerId" \notin DOMAIN consumerConfig THEN TRUE
    ELSE consumerConfig.consumerId = ""

\* the config the factory hands to firestoreEventStoreConsumer: the
\* defaults, over which consumerConfig is spread
FactoryConfig(consumerConfig) ==
    consumerConfig @@
        [consumerId |-> consumerConfig.consumerId,
         processors |-> IF "processors" \in DOMAIN consumerConfig
                        THEN consumerConfig.processors ELSE <<>>]

\* the call of the factory recorded: its argument and the error it threw
ConsumerCall(consumerConfig, error) ==
    [op |-> "consumer", config |-> consumerConfig, error |-> error]

\* eventStore.consumer(consumerConfig) throws: nothing is created
ConsumerThrows(consumerConfig) ==
    /\ NoConsumerId(consumerConfig)
    /\ lastCall' = ConsumerCall(consumerConfig,
                        [message |-> "consumerId is required for consumer"])
    /\ UNCHANGED <<storeVars, appendVars, readVars, aggVars, projVars,
                   checkpointDoc, isRunning, pollingTimer,
                   lastProcessedPosition, chain, delivered, resumePoint,
                   registered>>

\* eventStore.consumer(consumerConfig) returns a new consumer object, which
\* takes the place of the former one once that one has stopped and has
\* nothing in flight
Consumer(consumerConfig) ==
    /\ ~NoConsumerId(consumerConfig)
    /\ ~isRunning
    /\ \A c \in PollChains : chain[c].pc = "free"
    /\ isRunning' = FALSE
    /\ pollingTimer' = Undefined
    /\ lastProcessedPosition' = Undefined
    /\ resumePoint' = checkpointDoc
    /\ registered' = FactoryConfig(consumerConfig).processors
    /\ lastCall' = ConsumerCall(consumerConfig, None)
    /\ UNCHANGED <<storeVars, appendVars, readVars, aggVars, projVars,
                   checkpointDoc, chain, delivered>>

\* mutant: start() does not look at the processors
StartErrorRunningOnly(running, configProcessors) ==
    IF running THEN [message |-> "Consumer is already running"]
    ELSE None

\* the error start() throws before it does anything else, None when it
\* goes on
StartError(running, configProcessors) ==
    IF running THEN [message |-> "Consumer is already running"]
    ELSE IF Len(configProcessors) = 0
    THEN [message |->
            "Cannot start consumer without at least a single processor"]
    ELSE None

\* start() throws
StartThrows ==
    /\ StartError(isRunning, registered) # None
    /\ lastCall' = StartCall(StartError(isRunning, registered))
    /\ UNCHANGED <<storeVars, appendVars, readVars, aggVars, projVars, checkpointDoc,
                   isRunning, pollingTimer, lastProcessedPosition, chain,
                   delivered, resumePoint, registered>>

\* start() up to await loadCheckpoint()
Start(c) ==
    /\ StartError(isRunning, registered) = None
    /\ chain[c].pc = "free"
    /\ chain' = [chain EXCEPT ![c] = [FreeChain EXCEPT !.pc = "loading"]]
    /\ lastCall' = StartCall(None)
    /\ UNCHANGED <<storeVars, appendVars, readVars, aggVars, projVars, checkpointDoc,
                   isRunning, pollingTimer, lastProcessedPosition, delivered,
                   resumePoint, registered>>

\* start() from the loaded checkpoint on: the position, the flag and the
\* first poll up to its query
CheckpointLoaded(c) ==
    /\ chain[c].pc = "loading"
    /\ lastProcessedPosition' = LoadCheckpoint(checkpointDoc)
    /\ isRunning' = TRUE
    /\ PollBegins(c, LoadCheckpoint(checkpointDoc))
    /\ UNCHANGED <<storeVars, appendVars, readVars, aggVars, projVars, checkpointDoc,
                   pollingTimer, delivered, resumePoint,
                   registered, lastCall>>

\* mutant: the timer fires without a poll
TimerFiresIdle(c) ==
    /\ chain[c].pc = "timer"
    /\ chain' = [chain EXCEPT ![c] = FreeChain]
    /\ UNCHANGED <<storeVars, appendVars, readVars, aggVars, projVars, checkpointDoc,
                   isRunning, pollingTimer, lastProcessedPosition, delivered,
                   resumePoint, registered, lastCall>>

\* the timer of chain c fires: poll() returns at once when the consumer
\* does not run, and builds its query otherwise
TimerFires(c) ==
    /\ chain[c].pc = "timer"
    /\ IF ~isRunning
       THEN chain' = [chain EXCEPT ![c] = FreeChain]
       ELSE PollBegins(c, lastProcessedPosition)
    /\ UNCHANGED <<storeVars, appendVars, readVars, aggVars, projVars, checkpointDoc,
                   isRunning, pollingTimer, lastProcessedPosition, delivered,
                   resumePoint,
                   registered, lastCall>>

\* query.get() returns: an empty snapshot ends the poll, another one is
\* mapped to events and processWithRetry invokes the first processor
PollQueried(c) ==
    /\ chain[c].pc = "query"
    /\ LET events == PollEvents(chain[c].after)
       IN  IF events = <<>>
           THEN Scheduled(c)
           ELSE /\ chain' = [chain EXCEPT ![c] =
                        [@ EXCEPT !.pc = "handle", !.page = events,
                                  !.attempt = 0, !.index = 1,
                                  !.calls[1] = 1]]
                /\ UNCHANGED pollingTimer
    /\ UNCHANGED <<storeVars, appendVars, readVars, aggVars, projVars, checkpointDoc,
                   isRunning, lastProcessedPosition, delivered, resumePoint,
                   registered, lastCall>>

\* query.get() rejects (the store is unreachable or times out): the
\* poll goes on in its catch
PollQueryFails(c) ==
    /\ chain[c].pc = "query"
    /\ chain' = [chain EXCEPT ![c] = [@ EXCEPT !.pc = "failed"]]
    /\ UNCHANGED <<storeVars, appendVars, readVars, aggVars, projVars,
                   checkpointDoc, isRunning, pollingTimer,
                   lastProcessedPosition, delivered, resumePoint,
                   registered, lastCall>>

\* mutant: the catch of the poll stops the consumer
PollCatchesAndStops(c) ==
    /\ chain[c].pc = "failed"
    /\ isRunning' = FALSE
    /\ chain' = [chain EXCEPT ![c] = FreeChain]
    /\ UNCHANGED <<storeVars, appendVars, readVars, aggVars, projVars,
                   checkpointDoc, pollingTimer, lastProcessedPosition,
                   delivered, resumePoint, registered, lastCall>>

\* the catch of the poll logs the error of the query, and the poll ends
PollCatches(c) ==
    /\ chain[c].pc = "failed"
    /\ Scheduled(c)
    /\ UNCHANGED <<storeVars, appendVars, readVars, aggVars, projVars,
                   checkpointDoc, isRunning, lastProcessedPosition,
                   delivered, resumePoint, registered, lastCall>>

\* the awaited processor.handle(events) returns: the next processor is
\* invoked, or, after the last one, the position is set to the page's last
\* global position and saveCheckpoint is called
HandleReturns(c) ==
    /\ chain[c].pc = "handle"
    /\ IF chain[c].index < Len(processors)
       THEN /\ chain' = [chain EXCEPT ![c] =
                    [@ EXCEPT !.index = @ + 1,
                              !.calls[chain[c].index + 1] = @ + 1]]
            /\ UNCHANGED <<lastProcessedPosition, delivered>>
       ELSE /\ chain' = [chain EXCEPT ![c] = [@ EXCEPT !.pc = "save"]]
            /\ lastProcessedPosition' = LastPosition(chain[c].page)
            /\ delivered' = delivered \cup Positions(chain[c].page)
    /\ UNCHANGED <<storeVars, appendVars, readVars, aggVars, projVars, checkpointDoc,
                   isRunning, pollingTimer, resumePoint,
                   registered, lastCall>>

\* mutant: the error of a processor is swallowed and the next processor
\* is invoked all the same
HandleThrowsGoesOn(c) ==
    /\ chain[c].pc = "handle"
    /\ LET failed == [chain[c] EXCEPT !.fails[chain[c].index] = @ + 1]
       IN  IF chain[c].index < Len(processors)
           THEN /\ chain' = [chain EXCEPT ![c] =
                        [failed EXCEPT !.index = @ + 1,
                                       !.calls[chain[c].index + 1] = @ + 1]]
                /\ UNCHANGED pollingTimer
           ELSE IF chain[c].attempt < maxRetries
           THEN /\ chain' = [chain EXCEPT ![c] =
                        [failed EXCEPT !.pc = "backoff"]]
                /\ UNCHANGED pollingTimer
           ELSE Scheduled(c)
    /\ UNCHANGED <<storeVars, appendVars, readVars, aggVars, projVars,
                   checkpointDoc, isRunning, lastProcessedPosition,
                   delivered, resumePoint, registered, lastCall>>

\* the awaited processor.handle(events) throws: a retry after the backoff
\* delay while the budget lasts, then the error hook and the end of the
\* poll through its catch
HandleThrows(c) ==
    /\ chain[c].pc = "handle"
    /\ LET failed == [chain[c] EXCEPT !.fails[chain[c].index] = @ + 1]
       IN  IF chain[c].attempt < maxRetries
           THEN /\ chain' = [chain EXCEPT ![c] =
                        [failed EXCEPT !.pc = "backoff"]]
                /\ UNCHANGED pollingTimer
           ELSE IF onError
           THEN /\ chain' = [chain EXCEPT ![c] =
                        [failed EXCEPT !.pc = "onError", !.index = 1,
                                       !.hooks = 1]]
                /\ UNCHANGED pollingTimer
           ELSE Scheduled(c)
    /\ UNCHANGED <<storeVars, appendVars, readVars, aggVars, projVars, checkpointDoc,
                   isRunning, lastProcessedPosition, delivered, resumePoint,
                   registered, lastCall>>

\* mutant: the retry goes on with the processor that failed
BackoffElapsedResumes(c) ==
    /\ chain[c].pc = "backoff"
    /\ chain' = [chain EXCEPT ![c] =
            [@ EXCEPT !.pc = "handle", !.attempt = @ + 1,
                      !.calls[chain[c].index] = @ + 1]]
    /\ UNCHANGED <<storeVars, appendVars, readVars, aggVars, projVars, checkpointDoc,
                   isRunning, pollingTimer, lastProcessedPosition, delivered,
                   resumePoint,
                   registered, lastCall>>

\* mutant: the retry queries the store again
BackoffElapsedQueries(c) ==
    /\ chain[c].pc = "backoff"
    /\ chain' = [chain EXCEPT ![c] =
            [@ EXCEPT !.pc = "handle", !.attempt = @ + 1, !.index = 1,
                      !.calls[1] = @ + 1,
                      !.page = PollEvents(chain[c].after)]]
    /\ UNCHANGED <<storeVars, appendVars, readVars, aggVars, projVars,
                   checkpointDoc, isRunning, pollingTimer,
                   lastProcessedPosition, delivered, resumePoint,
                   registered, lastCall>>

\* the backoff delay has passed: processWithRetry(events, attempt + 1)
\* invokes the first processor again
BackoffElapsed(c) ==
    /\ chain[c].pc = "backoff"
    /\ chain' = [chain EXCEPT ![c] =
            [@ EXCEPT !.pc = "handle", !.attempt = @ + 1, !.index = 1,
                      !.calls[1] = @ + 1]]
    /\ UNCHANGED <<storeVars, appendVars, readVars, aggVars, projVars, checkpointDoc,
                   isRunning, pollingTimer, lastProcessedPosition, delivered,
                   resumePoint,
                   registered, lastCall>>

\* mutant: the hook is invoked for the first event only
OnErrorReturnsOnce(c) ==
    /\ chain[c].pc = "onError"
    /\ Scheduled(c)
    /\ UNCHANGED <<storeVars, appendVars, readVars, aggVars, projVars, checkpointDoc,
                   isRunning, lastProcessedPosition, delivered, resumePoint,
                   registered, lastCall>>

\* the awaited onError(error, event) returns: the hook is invoked for the
\* next event of the page, or, after the last one, the error is thrown
\* again and the poll ends through its catch
OnErrorReturns(c) ==
    /\ chain[c].pc = "onError"
    /\ IF chain[c].index < Len(chain[c].page)
       THEN /\ chain' = [chain EXCEPT ![c] =
                    [@ EXCEPT !.index = @ + 1, !.hooks = @ + 1]]
            /\ UNCHANGED pollingTimer
       ELSE Scheduled(c)
    /\ UNCHANGED <<storeVars, appendVars, readVars, aggVars, projVars, checkpointDoc,
                   isRunning, lastProcessedPosition, delivered, resumePoint,
                   registered, lastCall>>

\* the awaited saveCheckpoint(position) returns, the document set; the
\* poll ends
CheckpointSaved(c) ==
    /\ chain[c].pc = "save"
    /\ checkpointDoc' = CheckpointDoc(LastPosition(chain[c].page))
    /\ Scheduled(c)
    /\ UNCHANGED <<storeVars, appendVars, readVars, aggVars, projVars, isRunning,
                   lastProcessedPosition, delivered, resumePoint,
                   registered, lastCall>>

\* the awaited saveCheckpoint(position) rejects: checkpointRef.set has no
\* try/catch of its own, so the poll's catch logs the error and the poll
\* ends; lastProcessedPosition was assigned before the write was awaited
CheckpointSaveFails(c) ==
    /\ chain[c].pc = "save"
    /\ Scheduled(c)
    /\ UNCHANGED <<storeVars, appendVars, readVars, aggVars, projVars, isRunning,
                   lastProcessedPosition, delivered, resumePoint,
                   registered, lastCall, checkpointDoc>>

\* stop(): the flag is cleared and the timer of the stored handle, if it
\* is still pending, is cancelled
Stop ==
    /\ isRunning' = FALSE
    /\ IF pollingTimer # Undefined
       THEN /\ chain' = [c \in PollChains |->
                    IF pollingTimer = Timeout(c) /\ chain[c].pc = "timer"
                    THEN FreeChain ELSE chain[c]]
            /\ pollingTimer' = Undefined
       ELSE UNCHANGED <<chain, pollingTimer>>
    /\ lastCall' = StopCall
    /\ UNCHANGED <<storeVars, appendVars, readVars, aggVars, projVars, checkpointDoc,
                   lastProcessedPosition, delivered, resumePoint, registered>>

----------------------------------------------------------------------------
(* Read models in the Realtime Database (emmett-realtimedb) *)

\* null: the value of snapshot.val() for a path that holds nothing, and of
\* a fold that removes the document
Null == [null |-> TRUE]

\* an error thrown out of evolve
Thrown(name) == [thrown |-> name]

IsThrown(value) == "thrown" \in DOMAIN value

\* {} and { ...target, ...source }
EmptyObject == [key \in {} |-> Undefined]

Assign(target, source) == source @@ target

\* obj[key] of JavaScript: undefined for a key the object does not have
Get(obj, key) == IF key \in DOMAIN obj THEN obj[key] ELSE Undefined

\* a JavaScript number that a division produced, as a reduced fraction
RECURSIVE GCD(_, _)
GCD(a, b) == IF b = 0 THEN a ELSE GCD(b, a % b)

Number(num, den) ==
    LET g == GCD(num, den) IN [num |-> num \div g, den |-> den \div g]

\* the streams (shopping carts) whose events are projected, and the client
\* each cart belongs to
Carts == {"cart1", "cart2", "cart3"}

ClientOf(cart) == IF cart = "cart3" THEN "client2" ELSE "client1"

DocumentIds == Carts \cup {ClientOf(cart) : cart \in Carts}

\* the events of the tests, without position: type and data
ProductItemAdded(quantity, price) ==
    [type |-> "ProductItemAdded",
     data |-> [quantity |-> quantity, price |-> price]]

DiscountApplied(percent) ==
    [type |-> "DiscountApplied", data |-> [percent |-> percent]]

ShoppingCartDeleted == [type |-> "ShoppingCartDeleted", data |-> EmptyObject]

ProductItemAddedToShoppingCart(quantity, unitPrice) ==
    [type |-> "ProductItemAddedToShoppingCart",
     data |-> [shoppingCartId |-> "",
               productItem |-> [quantity |-> quantity,
                                unitPrice |-> unitPrice]]]

ShoppingCartConfirmed ==
    [type |-> "ShoppingCartConfirmed", data |-> [shoppingCartId |-> ""]]

ShoppingCartCancelled ==
    [type |-> "ShoppingCartCancelled", data |-> [shoppingCartId |-> ""]]

\* a read event of a cart: the data names the cart where the event type
\* has a shoppingCartId, the metadata holds the stream, the position in
\* it and the client of the cart
CartEvent(event, streamName, position) ==
    [type |-> event.type,
     data |-> IF "shoppingCartId" \in DOMAIN event.data
              THEN [event.data EXCEPT !.shoppingCartId = streamName]
              ELSE event.data,
     metadata |-> [streamName |-> streamName,
                   streamPosition |-> BigInt(position),
                   clientId |-> ClientOf(streamName)]]

\* evolve of the shopping cart short info
evolve(document, event) ==
    LET doc == IF document = Null
               THEN [productItemsCount |-> 0, totalAmount |-> Number(0, 1)]
               ELSE document
    IN  CASE event.type = "ProductItemAdded" ->
               [totalAmount |->
                    Number(doc.totalAmount.num
                             + event.data.price * event.data.quantity
                               * doc.totalAmount.den,
                           doc.totalAmount.den),
                productItemsCount |->
                    doc.productItemsCount + event.data.quantity]
          [] event.type = "DiscountApplied" ->
               Assign(doc,
                      [totalAmount |->
                          Number(doc.totalAmount.num
                                   * (100 - event.data.percent),
                                 doc.totalAmount.den * 100)])
          [] event.type = "ShoppingCartDeleted" -> Null
          [] OTHER -> doc

\* withAdjustedTotals: the 'in' operator throws on an undefined operand
withAdjustedTotals(summary, with, by) ==
    IF with = Undefined THEN Thrown("TypeError")
    ELSE LET totalAmount ==
                 IF "totalAmount" \in DOMAIN with THEN with.totalAmount
                 ELSE with.unitPrice * with.quantity
             productItemsCount ==
                 IF "productItemsCount" \in DOMAIN with
                 THEN with.productItemsCount
                 ELSE with.quantity
             plusOrMinus == IF by = "adding" THEN 1 ELSE -1
             document == IF summary = Undefined THEN EmptyObject ELSE summary
         IN  Assign(document,
                    [totalAmount |->
                         (IF summary = Undefined THEN 0
                          ELSE summary.totalAmount)
                         + totalAmount * plusOrMinus,
                     productItemsCount |->
                         (IF summary = Undefined THEN 0
                          ELSE summary.productItemsCount)
                         + productItemsCount * plusOrMinus])

initialSummary == [cartsCount |-> 0, productItemsCount |-> 0, totalAmount |-> 0]

\* evolve of the client shopping summary
evolveClientSummary(document, event) ==
    LET summary ==
            IF document = Null
            THEN [clientId |-> event.metadata.clientId,
                  pending |-> Undefined,
                  confirmed |-> initialSummary,
                  cancelled |-> initialSummary]
            ELSE document
        pending == Get(summary, "pending")
        Adjusted(by) ==
            Assign(summary,
                   [pending |->
                       Assign([cartId |-> event.data.shoppingCartId],
                              withAdjustedTotals(pending,
                                                 event.data.productItem,
                                                 by))])
        Closed(key) ==
            LET totals == withAdjustedTotals(summary[key], pending, "adding")
            IN  IF IsThrown(totals) THEN totals
                ELSE Assign(summary,
                            (key :> Assign(totals,
                                       [cartsCount |->
                                           summary[key].cartsCount + 1]))
                            @@ [pending |-> Undefined])
    IN  CASE event.type = "ProductItemAddedToShoppingCart" -> Adjusted("adding")
          [] event.type = "ProductItemRemovedFromShoppingCart" ->
               Adjusted("removing")
          [] event.type = "ShoppingCartConfirmed" -> Closed("confirmed")
          [] event.type = "ShoppingCartCancelled" -> Closed("cancelled")
          [] OTHER -> summary

\* evolve of the deletable cart status
evolveCartStatus(doc, event) ==
    IF event.type = "ShoppingCartCancelled" THEN Null
    ELSE IF doc = Null THEN [cartId |-> "", status |-> "active"]
    ELSE doc

\* the projections: realtimeDBProjection behind the processor of the
\* sample, which groups by stream, and realtimeDBMultiStreamProjection
ShoppingCartSummary ==
    [engine |-> "realtimeDBProjection", name |-> "shopping-cart-summary",
     canHandle |-> {"ProductItemAdded", "DiscountApplied",
                    "ShoppingCartDeleted"},
     evolve |-> "evolve", initialState |-> FALSE,
     getDocumentId |-> "streamName", carts |-> {"cart1", "cart2"},
     events |-> {ProductItemAdded(10, 3), ProductItemAdded(5, 2),
                 DiscountApplied(10), ShoppingCartDeleted}]

ShoppingCartWithInitial ==
    [engine |-> "realtimeDBProjection", name |-> "shopping-cart-with-initial",
     canHandle |-> {"ProductItemAdded", "DiscountApplied"},
     evolve |-> "evolve", initialState |-> TRUE,
     getDocumentId |-> "streamName", carts |-> {"cart1", "cart2"},
     events |-> {ProductItemAdded(10, 3), ProductItemAdded(5, 2),
                 DiscountApplied(10), ShoppingCartDeleted}]

ClientShoppingSummary ==
    [engine |-> "realtimeDBMultiStreamProjection",
     name |-> "ClientShoppingSummary",
     canHandle |-> {"ProductItemAddedToShoppingCart",
                    "ProductItemRemovedFromShoppingCart",
                    "ShoppingCartConfirmed", "ShoppingCartCancelled"},
     evolve |-> "evolveClientSummary", initialState |-> FALSE,
     getDocumentId |-> "clientId", carts |-> Carts,
     events |-> {ProductItemAddedToShoppingCart(2, 10),
                 ShoppingCartConfirmed, ShoppingCartCancelled}]

DeletableCart ==
    [engine |-> "realtimeDBMultiStreamProjection", name |-> "DeletableCart",
     canHandle |-> {"ProductItemAddedToShoppingCart",
                    "ShoppingCartCancelled"},
     evolve |-> "evolveCartStatus", initialState |-> FALSE,
     getDocumentId |-> "streamName", carts |-> {"cart1", "cart2"},
     events |-> {ProductItemAddedToShoppingCart(1, 10),
                 ShoppingCartCancelled}]

Projections ==
    {ShoppingCartSummary, ShoppingCartWithInitial, ClientShoppingSummary,
     DeletableCart}

\* the projection the processor was created with, found by its name
ProjectionOptions ==
    CHOOSE options \in Projections : options.name = projection

\* options.evolve(state, event) and options.initialState()
OptionsEvolve(options, state, event) ==
    CASE options.evolve = "evolve" -> evolve(state, event)
      [] options.evolve = "evolveClientSummary" ->
            evolveClientSummary(state, event)
      [] options.evolve = "evolveCartStatus" -> evolveCartStatus(state, event)

OptionsInitialState(options) ==
    [productItemsCount |-> 0, totalAmount |-> Number(0, 1)]

\* the key of the group of an event: the stream name in the processor,
\* getDocumentId(event) in the multi-stream projection
DocumentId(options, event) ==
    IF options.getDocumentId = "clientId" THEN event.metadata.clientId
    ELSE event.metadata.streamName

\* the keys of the Map in insertion order
RECURSIVE MapKeys(_, _)
MapKeys(options, events) ==
    IF events = <<>> THEN <<>>
    ELSE LET init == MapKeys(options, SubSeq(events, 1, Len(events) - 1))
             docId == DocumentId(options, events[Len(events)])
         IN  IF \E i \in 1..Len(init) : init[i] = docId THEN init
             ELSE init \o <<docId>>

\* mutant: every entry holds the whole batch
EventsByDocIdWhole(options, events) ==
    LET keys == MapKeys(options, events)
    IN  [i \in 1..Len(keys) |-> [docId |-> keys[i], events |-> events]]

\* the Map of the events by key, as its entries in insertion order
EventsByDocId(options, events) ==
    LET keys == MapKeys(options, events)
    IN  [i \in 1..Len(keys) |->
            [docId |-> keys[i],
             events |-> SelectSeq(events,
                           LAMBDA event : DocumentId(options, event) = keys[i])]]

\* the for loop over the events: the first throw ends it
RECURSIVE EvolveAll(_, _, _)
EvolveAll(options, state, events) ==
    IF events = <<>> THEN state
    ELSE LET next == OptionsEvolve(options, state, Head(events))
         IN  IF IsThrown(next) THEN next
             ELSE EvolveAll(options, next, Tail(events))

\* the events the for loop invokes evolve with: all of them, up to the
\* first throw
RECURSIVE EvolveCalls(_, _, _)
EvolveCalls(options, state, events) ==
    IF events = <<>> THEN <<>>
    ELSE LET next == OptionsEvolve(options, state, Head(events))
         IN  IF IsThrown(next) THEN <<Head(events)>>
             ELSE <<Head(events)>>
                  \o EvolveCalls(options, next, Tail(events))

\* ({ _metadata, ...rest }) => rest
StripMetadata(doc) == [key \in DOMAIN doc \ {"_metadata"} |-> doc[key]]

\* mutant: the position of the first event of the group
FirstStreamPosition(events) == events[1].metadata.streamPosition

\* the stream position of the last event of the loop
LastStreamPosition(events) == events[Len(events)].metadata.streamPosition

\* the metadata of the document: the stream id is the one the processor
\* passes (the stream name) or the stream name of the last event
Metadata(options, events) ==
    [streamId |-> events[Len(events)].metadata.streamName,
     name |-> options.name,
     schemaVersion |-> 1,
     streamPosition |-> LastStreamPosition(events)]

\* the keys that hold objects or undefined, and those that hold a bigint;
\* every other key holds a number or a string
ObjectKeys == {"pending", "confirmed", "cancelled", "_metadata"}
BigIntKeys == {"streamPosition"}

\* serializeForFirebase: a bigint becomes its decimal string; the one of
\* the multi-stream projection skips the undefined values of an object
RECURSIVE serializeForFirebase(_, _)
serializeForFirebase(obj, skipsUndefined) ==
    IF obj \in {Null, Undefined} THEN obj
    ELSE LET kept == {key \in DOMAIN obj :
                         ~(/\ skipsUndefined
                           /\ key \in ObjectKeys
                           /\ obj[key] = Undefined)}
         IN  [key \in kept |->
                 IF key \in BigIntKeys THEN PositionToString(obj[key])
                 ELSE IF key \in ObjectKeys
                 THEN serializeForFirebase(obj[key], skipsUndefined)
                 ELSE obj[key]]

\* what handle() of the projection does with the events of one key and
\* the value read for it: nothing (the projection is filtered out), a
\* throw out of evolve, or the value to set
Skipped == [skipped |-> TRUE]

\* the state the fold starts from: the document handed to handle(), which
\* the multi-stream projection has stripped of its metadata, or
\* initialState() in its place when it is declared and there is none
FoldStart(options, snapshot) ==
    LET document ==
            IF options.engine = "realtimeDBProjection" \/ snapshot = Null
            THEN snapshot
            ELSE StripMetadata(snapshot)
    IN  IF options.initialState /\ document = Null
        THEN OptionsInitialState(options)
        ELSE document

Projected(options, events, snapshot) ==
    IF /\ options.engine = "realtimeDBProjection"
       /\ \A i \in 1..Len(events) : events[i].type \notin options.canHandle
    THEN Skipped
    ELSE LET state == FoldStart(options, snapshot)
             folded == EvolveAll(options, state, events)
         IN  IF IsThrown(folded) THEN folded
             ELSE IF folded = Null THEN [set |-> Null]
             ELSE [set |->
                     serializeForFirebase(
                         Assign(folded,
                                [key \in {"_metadata"} |->
                                     Metadata(options, events)]),
                         options.engine = "realtimeDBMultiStreamProjection")]

\* no call of handle()
NoHandle ==
    [pc |-> "idle", events |-> <<>>, entries |-> <<>>, value |-> Null,
     before |-> [docId \in DocumentIds |-> Null], result |-> None,
     again |-> FALSE, start |-> None, evolved |-> <<>>]

\* the batches of a projection: the events of its carts in any order
\* and, in each cart, at consecutive stream positions
RECURSIVE Positioned(_, _)
Positioned(batch, next) ==
    IF batch = <<>> THEN <<>>
    ELSE LET cart == Head(batch).cart
         IN  <<CartEvent(Head(batch).event, cart, next[cart])>>
             \o Positioned(Tail(batch), [next EXCEPT ![cart] = @ + 1])

RECURSIVE AppendedTo(_, _)
AppendedTo(next, batch) ==
    IF batch = <<>> THEN next
    ELSE AppendedTo([next EXCEPT ![Head(batch).cart] = @ + 1], Tail(batch))

\* handle(events) is called: the events are grouped by key
HandleCalled(events, again, next) ==
    /\ handler.pc = "idle"
    /\ handler' = [pc |-> "read", events |-> events,
                   entries |-> EventsByDocId(ProjectionOptions, events),
                   value |-> Null, before |-> documents, result |-> None,
                   again |-> again, start |-> None, evolved |-> <<>>]
    /\ projected' = [projected EXCEPT
            !.count = @ + Len(events),
            !.next = next,
            !.previous = [events |-> handler.events,
                          before |-> handler.before,
                          result |-> handler.result]]
    /\ UNCHANGED <<projection, documents>>

\* the processor is handed the next events of the carts
Handle(batch) ==
    /\ \A i \in 1..Len(batch) :
          /\ batch[i].cart \in ProjectionOptions.carts
          /\ batch[i].event \in ProjectionOptions.events
    /\ projected.count + Len(batch) <= MaxProjected
    /\ HandleCalled(Positioned(batch, projected.next), FALSE,
                    AppendedTo(projected.next, batch))
    /\ UNCHANGED <<storeVars, appendVars, readVars, aggVars, consumerVars>>

\* the processor is handed the events of its last call once more
HandleAgain ==
    /\ handler.events # <<>>
    /\ projected.count + Len(handler.events) <= MaxProjected
    /\ HandleCalled(handler.events, TRUE, projected.next)
    /\ UNCHANGED <<storeVars, appendVars, readVars, aggVars, consumerVars>>

\* the end of the loop over the entries: handle() returns
NextEntry(entries) ==
    IF entries = <<>>
    THEN [handler EXCEPT !.pc = "idle", !.entries = <<>>, !.value = Null,
                         !.result = [returned |-> TRUE]]
    ELSE [handler EXCEPT !.pc = "read", !.entries = entries, !.value = Null]

\* the awaited once('value') of the first entry returns: the fold, up to
\* the awaited set(); start keeps the state handed to the first evolve,
\* evolved the events evolve was invoked with
DocumentRead ==
    /\ handler.pc = "read"
    /\ LET entry == Head(handler.entries)
           result == Projected(ProjectionOptions, entry.events,
                               documents[entry.docId])
           start == FoldStart(ProjectionOptions, documents[entry.docId])
           evolved == EvolveCalls(ProjectionOptions, start, entry.events)
       IN  /\ handler' =
                IF result = Skipped
                THEN [NextEntry(Tail(handler.entries)) EXCEPT
                            !.start = None, !.evolved = <<>>]
                ELSE IF IsThrown(result)
                THEN [handler EXCEPT !.pc = "idle", !.result = result,
                                     !.start = start, !.evolved = evolved]
                ELSE [handler EXCEPT !.pc = "set", !.value = result.set,
                                     !.start = start, !.evolved = evolved]
           /\ projected' =
                IF result = Skipped \/ IsThrown(result) THEN projected
                ELSE [projected EXCEPT !.folded[entry.docId] = result.set]
    /\ UNCHANGED <<projection, documents>>
    /\ UNCHANGED <<storeVars, appendVars, readVars, aggVars, consumerVars>>

\* mutant: a removed document leaves a flag behind
SetValueFlagged(value) == IF value = Null THEN [deleted |-> TRUE] ELSE value

\* set(value) of the Realtime Database: null removes what the path holds
SetValue(value) == value

\* the awaited set() returns: the next entry
DocumentSet ==
    /\ handler.pc = "set"
    /\ documents' = [documents EXCEPT
            ![Head(handler.entries).docId] = SetValue(handler.value)]
    /\ handler' = NextEntry(Tail(handler.entries))
    /\ UNCHANGED <<projection, projected>>
    /\ UNCHANGED <<storeVars, appendVars, readVars, aggVars, consumerVars>>

\* no event was handed to a processor
NoneProjected ==
    [count |-> 0, next |-> [cart \in Carts |-> 0],
     previous |-> [events |-> <<>>,
                   before |-> [docId \in DocumentIds |-> Null],
                   result |-> None],
     folded |-> [docId \in DocumentIds |-> None]]

\* a processor is created for a projection, over an empty database
CreateRealtimeDBProcessor(options) ==
    /\ handler = NoHandle
    /\ projected = NoneProjected
    /\ projection' = options.name
    /\ UNCHANGED <<documents, handler, projected>>
    /\ UNCHANGED <<storeVars, appendVars, readVars, aggVars, consumerVars>>

----------------------------------------------------------------------------
Init ==
    /\ streamDocs = [s \in StreamNames |-> NoDoc]
    /\ eventDocs = [s \in StreamNames |-> NoEvents]
    /\ counterDoc = NoDoc
    /\ appendPc = [a \in Appenders |-> "idle"]
    /\ appendCall = [a \in Appenders |-> NoCall]
    /\ appendTx = [a \in Appenders |-> None]
    /\ appendResult = [a \in Appenders |-> NoResult]
    /\ readPc = [r \in Readers |-> "idle"]
    /\ readCall = [r \in Readers |-> NoCall]
    /\ readSnap = [r \in Readers |-> None]
    /\ readResult = [r \in Readers |-> NoResult]
    /\ aggPc = [g \in Aggregators |-> "idle"]
    /\ aggCall = [g \in Aggregators |-> NoCall]
    /\ aggSnap = [g \in Aggregators |-> None]
    /\ aggResult = [g \in Aggregators |-> NoResult]
    /\ checkpointDoc = NoDoc
    /\ isRunning = FALSE
    /\ pollingTimer = Undefined
    /\ lastProcessedPosition = Undefined
    /\ chain = [c \in PollChains |-> FreeChain]
    /\ delivered = {}
    /\ resumePoint = NoDoc
    /\ registered = processors
    /\ lastCall = NoCall
    /\ projection = ShoppingCartSummary.name
    /\ documents = [docId \in DocumentIds |-> Null]
    /\ handler = NoHandle
    /\ projected = NoneProjected

\* the store after n appends of one event each, to one stream two times
\* out of three and to the other one the third time: the stream and the
\* stream version of the event with global position g, and the documents
\* the commits of these appends have written
StreamOf(g) == IF g % 3 = 2 THEN "s2" ELSE "s1"

VersionOf(g) == IF g % 3 = 2 THEN g \div 3 ELSE g - (g \div 3)

StoreAfter(n) ==
    LET own(s) == {g \in 0..(n - 1) : StreamOf(g) = s}
        at(s, id) == CHOOSE g \in own(s) : EventId(VersionOf(g)) = id
    IN  [streamDocs |->
            [s \in StreamNames |->
                IF own(s) = {} THEN NoDoc
                ELSE StreamDoc(Cardinality(own(s)) - 1)],
         eventDocs |->
            [s \in StreamNames |->
                [id \in {EventId(VersionOf(g)) : g \in own(s)} |->
                    EventDoc(BatchType(1), at(s, id), VersionOf(at(s, id)))]],
         counterDoc |-> IF n = 0 THEN NoDoc ELSE CounterDoc(n)]

\* the numbers of stored events a consumer finds: none, a few, and around
\* the page size of its query
StoredCounts ==
    {0, 1, 2} \cup {PageLimit - 1, PageLimit, PageLimit + 1, PageLimit + 2}

\* a store that holds the events of earlier appends, and nothing running
InitStored ==
    /\ \E n \in StoredCounts :
          /\ streamDocs = StoreAfter(n).streamDocs
          /\ eventDocs = StoreAfter(n).eventDocs
          /\ counterDoc = StoreAfter(n).counterDoc
    /\ appendPc = [a \in Appenders |-> "idle"]
    /\ appendCall = [a \in Appenders |-> NoCall]
    /\ appendTx = [a \in Appenders |-> None]
    /\ appendResult = [a \in Appenders |-> NoResult]
    /\ readPc = [r \in Readers |-> "idle"]
    /\ readCall = [r \in Readers |-> NoCall]
    /\ readSnap = [r \in Readers |-> None]
    /\ readResult = [r \in Readers |-> NoResult]
    /\ aggPc = [g \in Aggregators |-> "idle"]
    /\ aggCall = [g \in Aggregators |-> NoCall]
    /\ aggSnap = [g \in Aggregators |-> None]
    /\ aggResult = [g \in Aggregators |-> NoResult]
    /\ checkpointDoc = NoDoc
    /\ isRunning = FALSE
    /\ pollingTimer = Undefined
    /\ lastProcessedPosition = Undefined
    /\ chain = [c \in PollChains |-> FreeChain]
    /\ delivered = {}
    /\ resumePoint = NoDoc
    /\ registered = processors
    /\ lastCall = NoCall
    /\ projection = ShoppingCartSummary.name
    /\ documents = [docId \in DocumentIds |-> Null]
    /\ handler = NoHandle
    /\ projected = NoneProjected

\* concurrent appenders, every batch and every expected version
Next ==
    \/ \E a \in Appenders, s \in StreamNames, events \in Batches,
          e \in ExpectedVersions : AppendToStream(a, s, events, e)
    \/ \E a \in Appenders : TxGetStream(a)
    \/ \E a \in Appenders : TxGetCounter(a)
    \/ \E a \in Appenders : TxCommit(a)
    \/ \E a \in Appenders : TxRerun(a)

Spec == Init /\ [][Next]_vars

\* concurrent appenders, every batch, and the expected versions that are
\* not numbers: no check, the stream must exist, the stream must not exist
NamedVersions ==
    {Undefined, NO_CONCURRENCY_CHECK, STREAM_EXISTS, STREAM_DOES_NOT_EXIST}

NextCounter ==
    \/ \E a \in Appenders, s \in StreamNames, events \in Batches,
          e \in NamedVersions : AppendToStream(a, s, events, e)
    \/ \E a \in Appenders : TxGetStream(a)
    \/ \E a \in Appenders : TxGetCounter(a)
    \/ \E a \in Appenders : TxCommit(a)
    \/ \E a \in Appenders : TxRerun(a)

SpecCounter == Init /\ [][NextCounter]_vars

\* one writer, which appends without a concurrency check, and one reader:
\* the writer's appends interleave with the two gets of a read
Writers == {"a1"}

NextRead ==
    \/ \E a \in Writers, s \in StreamNames, events \in Batches :
            AppendToStream(a, s, events, Undefined)
    \/ \E a \in Writers : TxGetStream(a)
    \/ \E a \in Writers : TxGetCounter(a)
    \/ \E a \in Writers : TxCommit(a)
    \/ \E r \in Readers, s \in StreamNames, options \in ReadOptions :
            ReadStream(r, s, options)
    \/ \E r \in Readers : ReadQuery(r)

SpecRead == Init /\ [][NextRead]_vars

\* one writer and one aggregator: the writer's appends interleave with the
\* two gets of the aggregation's read
NextAggregate ==
    \/ \E a \in Writers, s \in StreamNames, events \in Batches :
            AppendToStream(a, s, events, Undefined)
    \/ \E a \in Writers : TxGetStream(a)
    \/ \E a \in Writers : TxGetCounter(a)
    \/ \E a \in Writers : TxCommit(a)
    \/ \E g \in Aggregators, s \in StreamNames, read \in ReadOptions :
            AggregateStream(g, s, read)
    \/ \E g \in Aggregators : AggregateQuery(g)

SpecAggregate == Init /\ [][NextAggregate]_vars

\* the batches the writer of the consumer's specifications appends
NonEmptyBatches == Batches \ {<<>>}

\* an order of the chains
NameOrder(c, d) == c = d \/ (c = "k1")

\* the chain a call of start() takes: the chains are interchangeable
FirstFree(c) ==
    /\ chain[c].pc = "free"
    /\ \A d \in PollChains : chain[d].pc = "free" => NameOrder(c, d)

\* one writer and one consumer whose start() is called only when the
\* consumer has no checkpoint load, poll or timer left: appends interleave
\* with the polls, processors fail at will, stop() comes at any moment
SinglePoll == {"k1"}

NextConsumer ==
    \/ \E a \in Writers, s \in StreamNames, events \in NonEmptyBatches :
            AppendToStream(a, s, events, Undefined)
    \/ \E a \in Writers : TxGetStream(a)
    \/ \E a \in Writers : TxGetCounter(a)
    \/ \E a \in Writers : TxCommit(a)
    \/ FirestoreEventStoreConsumer
    \/ \E c \in SinglePoll : Start(c)
    \/ \E c \in SinglePoll : CheckpointLoaded(c)
    \/ \E c \in SinglePoll : TimerFires(c)
    \/ \E c \in SinglePoll : PollQueried(c)
    \/ \E c \in SinglePoll : HandleReturns(c)
    \/ \E c \in SinglePoll : HandleThrows(c)
    \/ \E c \in SinglePoll : BackoffElapsed(c)
    \/ \E c \in SinglePoll : OnErrorReturns(c)
    \/ \E c \in SinglePoll : CheckpointSaved(c)
    \/ Stop

SpecConsumer == Init /\ [][NextConsumer]_vars

\* one writer and one consumer whose start() and stop() are called at any
\* moment, also while a checkpoint load or a poll is in flight; the
\* processors do not fail
NextRestart ==
    \/ \E a \in Writers, s \in StreamNames, events \in NonEmptyBatches :
            AppendToStream(a, s, events, Undefined)
    \/ \E a \in Writers : TxGetStream(a)
    \/ \E a \in Writers : TxGetCounter(a)
    \/ \E a \in Writers : TxCommit(a)
    \/ \E c \in PollChains : FirstFree(c) /\ Start(c)
    \/ \E c \in PollChains : CheckpointLoaded(c)
    \/ \E c \in PollChains : TimerFires(c)
    \/ \E c \in PollChains : PollQueried(c)
    \/ \E c \in PollChains : HandleReturns(c)
    \/ \E c \in PollChains : CheckpointSaved(c)
    \/ Stop

SpecRestart == Init /\ [][NextRestart]_vars

\* one writer and consumer objects with or without processors, whose
\* start() is called at any moment at which the consumer has no checkpoint
\* load, poll or timer left, also when it throws, and whose stop() is
\* called at any moment; the processors do not fail
ConfigProcessors == {processors, <<>>}

NextLifecycle ==
    \/ \E a \in Writers, s \in StreamNames, events \in NonEmptyBatches :
            AppendToStream(a, s, events, Undefined)
    \/ \E a \in Writers : TxGetStream(a)
    \/ \E a \in Writers : TxGetCounter(a)
    \/ \E a \in Writers : TxCommit(a)
    \/ \E configProcessors \in ConfigProcessors :
            CreateConsumer(configProcessors)
    \/ StartThrows
    \/ \E c \in SinglePoll : Start(c)
    \/ \E c \in SinglePoll : CheckpointLoaded(c)
    \/ \E c \in SinglePoll : TimerFires(c)
    \/ \E c \in SinglePoll : PollQueried(c)
    \/ \E c \in SinglePoll : HandleReturns(c)
    \/ \E c \in SinglePoll : CheckpointSaved(c)
    \/ Stop

SpecLifecycle == Init /\ [][NextLifecycle]_vars

\* one writer and the event store's consumer factory, called with every
\* config at any moment; the consumers it returns are started and stopped
\* at any moment; the processors do not fail
NextFactory ==
    \/ \E a \in Writers, s \in StreamNames, events \in NonEmptyBatches :
            AppendToStream(a, s, events, Undefined)
    \/ \E a \in Writers : TxGetStream(a)
    \/ \E a \in Writers : TxGetCounter(a)
    \/ \E a \in Writers : TxCommit(a)
    \/ \E consumerConfig \in ConsumerConfigs : ConsumerThrows(consumerConfig)
    \/ \E consumerConfig \in ConsumerConfigs : Consumer(consumerConfig)
    \/ StartThrows
    \/ \E c \in SinglePoll : Start(c)
    \/ \E c \in SinglePoll : CheckpointLoaded(c)
    \/ \E c \in SinglePoll : TimerFires(c)
    \/ \E c \in SinglePoll : PollQueried(c)
    \/ \E c \in SinglePoll : HandleReturns(c)
    \/ \E c \in SinglePoll : CheckpointSaved(c)
    \/ Stop

SpecFactory == Init /\ [][NextFactory]_vars

\* a consumer over a store that holds up to a little more than a page of
\* events: it is started, stopped and created anew at any moment, and its
\* processors may fail
NextPages ==
    \/ FirestoreEventStoreConsumer
    \/ \E c \in SinglePoll : Start(c)
    \/ \E c \in SinglePoll : CheckpointLoaded(c)
    \/ \E c \in SinglePoll : TimerFires(c)
    \/ \E c \in SinglePoll : PollQueried(c)
    \/ \E c \in SinglePoll : HandleReturns(c)
    \/ \E c \in SinglePoll : HandleThrows(c)
    \/ \E c \in SinglePoll : BackoffElapsed(c)
    \/ \E c \in SinglePoll : OnErrorReturns(c)
    \/ \E c \in SinglePoll : CheckpointSaved(c)
    \/ Stop

SpecPages == InitStored /\ [][NextPages]_vars

\* one writer and one consumer whose queries may fail at any poll; the
\* consumer is started, stopped and created anew at any moment, and its
\* processors may fail
NextTransport ==
    \/ \E a \in Writers, s \in StreamNames, events \in NonEmptyBatches :
            AppendToStream(a, s, events, Undefined)
    \/ \E a \in Writers : TxGetStream(a)
    \/ \E a \in Writers : TxGetCounter(a)
    \/ \E a \in Writers : TxCommit(a)
    \/ FirestoreEventStoreConsumer
    \/ \E c \in SinglePoll : Start(c)
    \/ \E c \in SinglePoll : CheckpointLoaded(c)
    \/ \E c \in SinglePoll : TimerFires(c)
    \/ \E c \in SinglePoll : PollQueried(c)
    \/ \E c \in SinglePoll : PollQueryFails(c)
    \/ \E c \in SinglePoll : PollCatches(c)
    \/ \E c \in SinglePoll : HandleReturns(c)
    \/ \E c \in SinglePoll : HandleThrows(c)
    \/ \E c \in SinglePoll : BackoffElapsed(c)
    \/ \E c \in SinglePoll : OnErrorReturns(c)
    \/ \E c \in SinglePoll : CheckpointSaved(c)
    \/ Stop

SpecTransport == Init /\ [][NextTransport]_vars

\* one writer and one consumer whose checkpoint writes may fail at any
\* poll; the consumer is started, stopped and created anew at any moment,
\* and its processors may fail
NextCheckpoint ==
    \/ \E a \in Writers, s \in StreamNames, events \in NonEmptyBatches :
            AppendToStream(a, s, events, Undefined)
    \/ \E a \in Writers : TxGetStream(a)
    \/ \E a \in Writers : TxGetCounter(a)
    \/ \E a \in Writers : TxCommit(a)
    \/ FirestoreEventStoreConsumer
    \/ \E c \in SinglePoll : Start(c)
    \/ \E c \in SinglePoll : CheckpointLoaded(c)
    \/ \E c \in SinglePoll : TimerFires(c)
    \/ \E c \in SinglePoll : PollQueried(c)
    \/ \E c \in SinglePoll : HandleReturns(c)
    \/ \E c \in SinglePoll : HandleThrows(c)
    \/ \E c \in SinglePoll : BackoffElapsed(c)
    \/ \E c \in SinglePoll : OnErrorReturns(c)
    \/ \E c \in SinglePoll : CheckpointSaved(c)
    \/ \E c \in SinglePoll : CheckpointSaveFails(c)
    \/ Stop

SpecCheckpoint == Init /\ [][NextCheckpoint]_vars

\* one writer and one consumer that is started once and never stopped; the
\* processors may fail
NextLive ==
    \/ \E a \in Writers, s \in StreamNames, events \in NonEmptyBatches :
            AppendToStream(a, s, events, Undefined)
    \/ \E a \in Writers : TxGetStream(a)
    \/ \E a \in Writers : TxGetCounter(a)
    \/ \E a \in Writers : TxCommit(a)
    \/ \E c \in SinglePoll : Start(c)
    \/ \E c \in SinglePoll : CheckpointLoaded(c)
    \/ \E c \in SinglePoll : TimerFires(c)
    \/ \E c \in SinglePoll : PollQueried(c)
    \/ \E c \in SinglePoll : HandleReturns(c)
    \/ \E c \in SinglePoll : HandleThrows(c)
    \/ \E c \in SinglePoll : BackoffElapsed(c)
    \/ \E c \in SinglePoll : OnErrorReturns(c)
    \/ \E c \in SinglePoll : CheckpointSaved(c)

\* the consumer is started; every awaited call to the store (checkpoint
\* load, page query, checkpoint save) returns, every timer (poll interval,
\* backoff delay) fires, the error hook returns and a started handle() ends
StoreReachable ==
    \A c \in SinglePoll :
        /\ WF_vars(Start(c))
        /\ WF_vars(CheckpointLoaded(c))
        /\ WF_vars(TimerFires(c))
        /\ WF_vars(PollQueried(c))
        /\ WF_vars(HandleReturns(c) \/ HandleThrows(c))
        /\ WF_vars(BackoffElapsed(c))
        /\ WF_vars(OnErrorReturns(c))
        /\ WF_vars(CheckpointSaved(c))

\* a processor that is handed a page again and again does not fail on it
\* forever
ProcessorsSucceed ==
    \A c \in SinglePoll : \A i \in 1..Len(processors) :
        SF_vars(HandleReturns(c) /\ chain[c].index = i)

SpecLive ==
    Init /\ [][NextLive]_vars /\ StoreReachable /\ ProcessorsSucceed

\* a processor of one of the projections that is handed the events of the
\* carts batch after batch, at times the batch it was handed last
ProjectionInputs(options) == [cart : options.carts, event : options.events]

NextProjection ==
    \/ \E options \in Projections : CreateRealtimeDBProcessor(options)
    \/ \E n \in 1..MaxProjected :
          /\ handler.pc = "idle"
          /\ projected.count + n <= MaxProjected
          /\ \E batch \in [1..n -> ProjectionInputs(ProjectionOptions)] :
                Handle(batch)
    \/ HandleAgain
    \/ DocumentRead
    \/ DocumentSet

SpecProjection == Init /\ [][NextProjection]_vars

----------------------------------------------------------------------------
(* Properties of appendToStream *)

\* the version of a stream document as a number, an absent stream counting
\* as -1
PriorVersion(streamDoc) == IF streamDoc.exists THEN streamDoc.version ELSE -1

\* appender a takes a step
AppenderMoves(a) ==
    \/ appendPc'[a] # appendPc[a]
    \/ appendCall'[a] # appendCall[a]
    \/ appendResult'[a] # appendResult[a]

\* appender a starts a call in this step
CallStarts(a) == appendPc[a] \in {"idle", "done"} /\ AppenderMoves(a)

\* appender a's transaction commits in this step
Commits(a) == appendPc[a] = "txCommit" /\ appendPc'[a] = "done"

\* appender a's transaction runs its concurrency check in this step
Checks(a) == appendPc[a] = "txGetStream" /\ appendPc'[a] # "txGetStream"

\* the expected version of a's call equals the current version of the
\* stream: its exact version, or does-not-exist for an absent stream
ExpectsCurrent(a) ==
    LET doc == streamDocs[appendCall[a].streamName]
        expected == appendCall[a].given
    IN  \/ doc.exists /\ expected = BigInt(doc.version)
        \/ ~doc.exists /\ expected = STREAM_DOES_NOT_EXIST

C1Step(a) ==
    LET doc == streamDocs[appendCall[a].streamName]
        k == Len(appendCall[a].events)
    IN  /\ Checks(a) /\ ExpectsCurrent(a) => appendPc'[a] = "txGetCounter"
        /\ Commits(a) /\ ExpectsCurrent(a) =>
              /\ appendResult'[a].status = "ok"
              /\ appendResult'[a].nextExpectedStreamVersion
                    = PriorVersion(doc) + k
              /\ appendResult'[a].createdNewStream = ~doc.exists
              /\ streamDocs'[appendCall[a].streamName].version
                    = PriorVersion(doc) + k

\* C1: an append of a non-empty batch of k events whose expected version
\* equals the stream's current version passes the concurrency check and,
\* when it commits, returns nextExpectedStreamVersion = current version + k
\* (an absent stream counting as -1) and createdNewStream exactly when the
\* stream had no prior version.
C1_AppendAtCurrentVersion == [][\A a \in Appenders : C1Step(a)]_vars

C1_Witness ==
    \E a \in Appenders :
        /\ appendPc[a] = "done"
        /\ appendResult[a].status = "ok"
        /\ appendCall[a].given = BigInt(0)
        /\ Len(appendCall[a].events) = 2
        /\ appendResult[a].nextExpectedStreamVersion = 2
        /\ ~appendResult[a].createdNewStream

\* the expected-version policy of a's call is violated by the stream
PolicyViolated(a) ==
    LET doc == streamDocs[appendCall[a].streamName]
        expected == appendCall[a].given
    IN  \/ expected = STREAM_DOES_NOT_EXIST /\ doc.exists
        \/ expected = STREAM_EXISTS /\ ~doc.exists
        \/ IsBigInt(expected) /\ (~doc.exists \/ expected.bigint # doc.version)

Conflicted(result) == result.status = "ExpectedVersionConflictError"

C2Step(a) ==
    /\ Checks(a) => (Conflicted(appendResult'[a]) <=> PolicyViolated(a))
    /\ Conflicted(appendResult'[a]) /\ appendResult'[a] # appendResult[a]
          => Checks(a)

\* C2: an append of a non-empty batch raises a version conflict exactly
\* when its expected-version policy is violated: must-not-exist on an
\* existing stream, must-exist on an absent stream, or an exact version
\* that differs from the current one (any exact version on an absent
\* stream); no expected version (the always-allow default), always-allow
\* and must-exist on an existing stream never conflict.
C2_ConflictIffPolicyViolated == [][\A a \in Appenders : C2Step(a)]_vars

C2_Witness ==
    \E a, b \in Appenders :
        /\ appendPc[a] = "done" /\ Conflicted(appendResult[a])
        /\ appendCall[a].given = BigInt(0)
        /\ appendResult[a].current = STREAM_DOES_NOT_EXIST
        /\ appendPc[b] = "done" /\ appendResult[b].status = "ok"
        /\ appendCall[b].given = Undefined
        /\ ~appendResult[b].createdNewStream

C3Step(a) ==
    /\ Conflicted(appendResult'[a]) /\ appendResult'[a] # appendResult[a] =>
          /\ UNCHANGED <<streamDocs, eventDocs, counterDoc>>
          /\ appendResult'[a].current
                = CurrentVersion(streamDocs[appendCall[a].streamName])
          /\ appendResult'[a].expected = appendCall[a].expectedStreamVersion
          /\ appendPc'[a] = "done"
    /\ AppenderMoves(a) /\ ~(Commits(a) /\ appendResult'[a].status = "ok")
          => UNCHANGED <<streamDocs, eventDocs, counterDoc>>

\* C3: an append rejected with a version conflict mutates nothing: stream
\* metadata, stored events and the global counter are unchanged by the
\* rejecting step and by every other step of the call, and the error
\* carries the actual and the expected version.
C3_ConflictMutatesNothing == [][\A a \in Appenders : C3Step(a)]_vars

C3_Witness ==
    \E a \in Appenders :
        /\ appendPc[a] = "done" /\ Conflicted(appendResult[a])
        /\ appendResult[a].current = BigInt(1)
        /\ appendResult[a].expected = BigInt(0)
        /\ streamDocs[appendCall[a].streamName] = StreamDoc(1)
        /\ NextPosition(counterDoc) = 2

\* the number of event documents stored over all streams
RECURSIVE StoredCount(_)
StoredCount(ss) ==
    IF ss = {} THEN 0
    ELSE LET s == CHOOSE x \in ss : TRUE
         IN  Cardinality(DOMAIN eventDocs[s]) + StoredCount(ss \ {s})

\* C4: append is all-or-nothing: in every reachable state a stream whose
\* metadata version is v stores exactly the events with ids 0..v, each with
\* streamVersion equal to its id, a stream without metadata stores none, and
\* the global counter equals the number of stored events.
C4_AllOrNothing ==
    /\ \A s \in StreamNames :
          IF streamDocs[s].exists
          THEN /\ DOMAIN eventDocs[s]
                    = {EventId(n) : n \in 0..streamDocs[s].version}
               /\ \A n \in 0..streamDocs[s].version :
                     eventDocs[s][EventId(n)].streamVersion = n
          ELSE DOMAIN eventDocs[s] = {}
    /\ NextPosition(counterDoc) = StoredCount(StreamNames)

C4_Witness ==
    \E a, b \in Appenders :
        /\ a # b
        /\ appendPc[a] = "done" /\ appendResult[a].status = "ok"
        /\ Len(appendCall[a].events) = 2
        /\ appendPc[b] = "txCommit"
        /\ appendCall[b].streamName = appendCall[a].streamName
        /\ streamDocs[appendCall[a].streamName].version = 1

\* every stored event as <<stream, id>>
StoredEvents(docs) ==
    UNION {{<<s, id>> : id \in DOMAIN docs[s]} : s \in StreamNames}

C5Step ==
    eventDocs' # eventDocs =>
    /\ \A e1, e2 \in StoredEvents(eventDocs') :
          e1 # e2 => eventDocs'[e1[1]][e1[2]].globalPosition
                        # eventDocs'[e2[1]][e2[2]].globalPosition
    /\ \A new \in StoredEvents(eventDocs') \ StoredEvents(eventDocs) :
          \A old \in StoredEvents(eventDocs) :
              eventDocs'[new[1]][new[2]].globalPosition
                  > eventDocs[old[1]][old[2]].globalPosition

\* C5: under every interleaving of appends, no two stored events share a
\* global position, and every event written by a commit has a global
\* position greater than that of every event committed before it.
C5_GlobalPositionsDistinctAndOrdered == [][C5Step]_vars

C5_Witness ==
    /\ EventId(1) \in DOMAIN eventDocs["s1"]
    /\ EventId(0) \in DOMAIN eventDocs["s2"]
    /\ eventDocs["s1"][EventId(0)].globalPosition = 0
    /\ eventDocs["s2"][EventId(0)].globalPosition = 1
    /\ eventDocs["s1"][EventId(1)].globalPosition = 2

\* a and b are finished appends of non-empty batches to one stream with the
\* same exact expected version (a number, or must-not-exist)
SameExactExpectation(a, b) ==
    /\ appendPc[a] = "done" /\ appendPc[b] = "done"
    /\ Len(appendCall[a].events) > 0
    /\ Len(appendCall[b].events) > 0
    /\ appendCall[a].streamName = appendCall[b].streamName
    /\ appendCall[a].given = appendCall[b].given
    /\ \/ IsBigInt(appendCall[a].given)
       \/ appendCall[a].given = STREAM_DOES_NOT_EXIST

C6State ==
    \A a, b \in Appenders :
        a # b /\ SameExactExpectation(a, b) =>
            /\ ~(appendResult[a].status = "ok" /\ appendResult[b].status = "ok")
            /\ appendResult[a].status # "ok" => Conflicted(appendResult[a])

C6Step(a) ==
    /\ Conflicted(appendResult'[a]) /\ appendResult'[a] # appendResult[a]
          => UNCHANGED eventDocs
    /\ Conflicted(appendResult[a]) => appendResult'[a].status # "ok"

\* C6: of two appenders that append to the same stream with the same exact
\* expected version (or both with must-not-exist), at most one succeeds and
\* the other gets a version conflict; the step that raises the conflict
\* writes no event, and a call that has raised a conflict never turns into
\* a success (the append does not retry on its own).
C6_AtMostOneWinner ==
    [][C6State' /\ \A a \in Appenders : C6Step(a)]_vars

C6_Witness ==
    \E a, b \in Appenders :
        /\ a # b /\ SameExactExpectation(a, b)
        /\ appendCall[a].given = BigInt(0)
        /\ appendResult[a].status = "ok"
        /\ Conflicted(appendResult[b])
        /\ appendResult[b].current
              = BigInt(appendResult[a].nextExpectedStreamVersion)

C9Step(a) ==
    /\ CallStarts(a) /\ appendCall'[a].events = <<>> =>
          /\ appendResult'[a].status = "Error"
          /\ appendPc'[a] = "done"
          /\ appendTx'[a] = None
          /\ UNCHANGED <<streamDocs, eventDocs, counterDoc>>
    /\ appendResult'[a].status = "Error" => appendCall'[a].events = <<>>
    /\ appendResult'[a].status = "ok" => appendCall'[a].events # <<>>

\* C9: an append with an empty batch fails with the empty-batch error for
\* every expected-version policy and every stream state, before anything is
\* read or written: no transaction is started and stream metadata, events
\* and the global counter are unchanged; no non-empty batch gets this error.
C9_EmptyBatchRejected == [][\A a \in Appenders : C9Step(a)]_vars

C9_Witness ==
    \E a \in Appenders :
        /\ appendPc[a] = "done"
        /\ appendResult[a].status = "Error"
        /\ appendCall[a].given = STREAM_EXISTS
        /\ streamDocs[appendCall[a].streamName].exists
        /\ streamDocs[appendCall[a].streamName].version = 1

----------------------------------------------------------------------------
(* Properties of the stored events and of readStream *)

QueryReturns(r) == readPc[r] = "query" /\ readPc'[r] = "done"

\* reader r starts a read in this step
ReadStarts(r) ==
    /\ readPc[r] \in {"idle", "done"}
    /\ \/ readPc'[r] # readPc[r]
       \/ readCall'[r] # readCall[r]
       \/ readResult'[r] # readResult[r]

C8Read(r) ==
    LET s == readCall[r].streamName
        from == readCall[r].options.from
        first == IF IsBigInt(from) THEN from.bigint ELSE 0
        events == readResult'[r].events
    IN  QueryReturns(r) =>
          /\ \A i \in 1..Len(events) :
                /\ events[i].metadata.streamPosition = BigInt(first + i - 1)
                /\ events[i].metadata.streamName = s
                /\ events[i].type = eventDocs[s][EventId(first + i - 1)].type
                /\ events[i].metadata.globalPosition =
                      BigInt(eventDocs[s][EventId(first + i - 1)].globalPosition)
          /\ \A i, j \in 1..Len(events) :
                i < j => events[i].metadata.globalPosition.bigint
                            < events[j].metadata.globalPosition.bigint

C8Append(a) ==
    LET s == appendCall[a].streamName
        batch == appendCall[a].events
        v == PriorVersion(streamDocs[s])
    IN  Commits(a) =>
          \A i \in 1..Len(batch) :
              /\ eventDocs'[s][EventId(v + i)].type = batch[i]
              /\ eventDocs'[s][EventId(v + i)].streamVersion = v + i
              /\ \A id \in DOMAIN eventDocs[s] :
                    eventDocs[s][id].globalPosition
                        < eventDocs'[s][EventId(v + i)].globalPosition
              /\ i > 1 => eventDocs'[s][EventId(v + i)].globalPosition
                            > eventDocs'[s][EventId(v + i - 1)].globalPosition

\* C8: a read returns a stream's events in the order in which they were
\* appended: a commit stores the i-th event of its batch at stream position
\* (prior version + i), after all earlier events of the stream and with a
\* greater global position than them, and a read returns the stored events
\* at consecutive ascending stream positions (0, 1, 2, ... when no from is
\* given) with strictly increasing global positions.
C8_ReadInAppendOrder ==
    [][/\ \A r \in Readers : C8Read(r)
       /\ \A a \in Writers : C8Append(a)]_vars

C8_Witness ==
    \E r \in Readers :
        /\ readPc[r] = "done"
        /\ readCall[r].options = [from |-> Undefined, to |-> Undefined,
                                  maxCount |-> Undefined]
        /\ Len(readResult[r].events) = 3
        /\ readResult[r].events[2].type = "ProductAdded"
        /\ readResult[r].events[3].type = "ShoppingCartOpened"
        /\ readResult[r].events[3].metadata.globalPosition = BigInt(2)

C10Step(r) ==
    /\ ReadStarts(r) /\ ~streamDocs[readCall'[r].streamName].exists =>
          /\ readPc'[r] = "done"
          /\ readResult'[r].status = "ok"
          /\ readResult'[r].streamExists = FALSE
          /\ readResult'[r].currentStreamVersion = STREAM_DOES_NOT_EXIST
          /\ readResult'[r].events = <<>>
    /\ ReadStarts(r) \/ QueryReturns(r) =>
          UNCHANGED <<streamDocs, eventDocs, counterDoc>>
    /\ ReadStarts(r) /\ readPc'[r] = "done" =>
          /\ ~streamDocs[readCall'[r].streamName].exists
          /\ DOMAIN eventDocs[readCall'[r].streamName] = {}

\* C10: a read of a stream that was never appended to returns at once,
\* without an error, streamExists = false, the does-not-exist version and
\* no events, and no step of a read creates or changes a document of the
\* store.
C10_ReadOfAbsentStream == [][\A r \in Readers : C10Step(r)]_vars

C10_Witness ==
    \E r \in Readers :
        /\ readPc[r] = "done"
        /\ readResult[r].status = "ok"
        /\ readResult[r].streamExists = FALSE
        /\ readResult[r].events = <<>>
        /\ ~streamDocs[readCall[r].streamName].exists
        /\ \E s \in StreamNames : streamDocs[s].exists

----------------------------------------------------------------------------
(* Properties of a windowed readStream *)

\* the stream positions stored for stream s that lie in the window of
\* options, compared as numbers
InWindow(s, options) ==
    {p \in 0..MaxCounter :
        /\ EventId(p) \in DOMAIN eventDocs[s]
        /\ IsBigInt(options.from) => options.from.bigint <= p
        /\ IsBigInt(options.to) => p <= options.to.bigint}

\* the number of events a read with these options may return at most
WindowCount(s, options) ==
    IF IsBigInt(options.maxCount)
          /\ options.maxCount.bigint < Cardinality(InWindow(s, options))
    THEN options.maxCount.bigint
    ELSE Cardinality(InWindow(s, options))

C11Step(r) ==
    LET s == readCall[r].streamName
        options == readCall[r].options
        result == readResult'[r]
        returned == {result.events[i].metadata.streamPosition.bigint :
                        i \in 1..Len(result.events)}
    IN  /\ ReadStarts(r) /\ streamDocs[readCall'[r].streamName].exists =>
              /\ readPc'[r] = "query"
              /\ readSnap'[r].version
                    = streamDocs[readCall'[r].streamName].version
        /\ QueryReturns(r) =>
              /\ result.streamExists = TRUE
              /\ Len(result.events) = WindowCount(s, options)
              /\ returned \subseteq InWindow(s, options)
              /\ \A p \in InWindow(s, options) \ returned :
                    \A q \in returned : q < p
              /\ \A i, j \in 1..Len(result.events) :
                    i < j => result.events[i].metadata.streamPosition.bigint
                              < result.events[j].metadata.streamPosition.bigint
              /\ \A i \in 1..Len(result.events) :
                    result.events[i] = ReadEvent(s,
                        eventDocs[s][EventId(
                            result.events[i].metadata.streamPosition.bigint)])
              /\ result.currentStreamVersion = BigInt(readSnap[r].version)
              /\ streamDocs[s].version = readSnap[r].version =>
                    result.currentStreamVersion = BigInt(streamDocs[s].version)

C11_EmptyWindow ==
    \E r \in Readers :
        /\ readPc[r] = "done"
        /\ readCall[r].options.from = BigInt(1)
        /\ readCall[r].options.to = BigInt(0)
        /\ readResult[r].events = <<>>
        /\ readResult[r].currentStreamVersion = BigInt(1)

----------------------------------------------------------------------------
(* Properties of aggregateStream *)

\* aggregator g's events query returns in this step
AggregateReturns(g) == aggPc[g] = "query" /\ aggPc'[g] = "done"

\* aggregator g starts an aggregation in this step
AggregateStarts(g) ==
    /\ aggPc[g] \in {"idle", "done"}
    /\ \/ aggPc'[g] # aggPc[g]
       \/ aggCall'[g] # aggCall[g]
       \/ aggResult'[g] # aggResult[g]

\* the stored events of stream s a read with these options selects, in
\* stream order, as readStream hands them over
Selected(s, options) ==
    LET first == IF IsBigInt(options.from) THEN options.from.bigint ELSE 0
    IN  [i \in 1..WindowCount(s, options) |->
            ReadEvent(s, eventDocs[s][EventId(first + i - 1)])]

\* the left fold of Evolve over events, from InitialState: the fold of
\* everything but the last event, evolved by the last
RECURSIVE LeftFold(_)
LeftFold(events) ==
    IF Len(events) = 0 THEN InitialState
    ELSE Evolve(LeftFold(SubSeq(events, 1, Len(events) - 1)),
                events[Len(events)])

C12Step(g) ==
    LET s == aggCall[g].streamName
        events == Selected(s, aggCall[g].read)
        result == aggResult'[g]
    IN  AggregateReturns(g) =>
          /\ result.status = "ok"
          /\ result.streamExists = TRUE
          /\ result.currentStreamVersion = BigInt(aggSnap[g].version)
          /\ result.evolveCalls = events
          /\ result.state = LeftFold(events)
          /\ Len(events) = 3 =>
                result.state = Evolve(Evolve(Evolve(InitialState, events[1]),
                                             events[2]), events[3])

C13Step(g) ==
    /\ AggregateStarts(g) /\ ~streamDocs[aggCall'[g].streamName].exists =>
          /\ aggPc'[g] = "done"
          /\ aggResult'[g].status = "ok"
          /\ aggResult'[g].state = InitialState
          /\ aggResult'[g].streamExists = FALSE
          /\ aggResult'[g].currentStreamVersion = STREAM_DOES_NOT_EXIST
          /\ aggResult'[g].evolveCalls = <<>>
    /\ AggregateStarts(g) /\ aggPc'[g] = "done" =>
          ~streamDocs[aggCall'[g].streamName].exists

\* C13: an aggregation of a stream that does not exist returns
\* initialState() unfolded, streamExists = false and the does-not-exist
\* version, and evolve is never invoked.
C13_AggregateOfAbsentStream == [][\A g \in Aggregators : C13Step(g)]_vars

C13_Witness ==
    \E g \in Aggregators :
        /\ aggPc[g] = "done"
        /\ ~streamDocs[aggCall[g].streamName].exists
        /\ aggResult[g].streamExists = FALSE
        /\ aggResult[g].state = InitialState
        /\ aggResult[g].evolveCalls = <<>>
        /\ \E s \in StreamNames : streamDocs[s].exists

----------------------------------------------------------------------------
(* Properties of the consumer *)

\* the position a checkpoint document holds, as a number
CheckpointPosition(doc) == ParseBigInt(doc.position)

\* the global positions of the stored events
StoredPositions == {RefData(ref).globalPosition : ref \in EventRefs}

\* a poll of chain c is in flight
Polling(c) == chain[c].pc \in {"query", "handle", "backoff", "onError", "save"}

\* chain c holds a page it is delivering
Delivering(c) == chain[c].pc \in {"handle", "backoff", "onError"}

\* C14: at-least-once delivery: whenever the persisted checkpoint is p,
\* every stored event with global position <= p has been delivered to every
\* registered processor in a page attempt in which all processors returned;
\* the same holds of the in-memory position the next query starts from, so
\* that no event is skipped, however appends interleave with the polls.
C14_AtLeastOnce ==
    /\ checkpointDoc.exists =>
          \A p \in StoredPositions :
              p <= CheckpointPosition(checkpointDoc) => p \in delivered
    /\ lastProcessedPosition # Undefined =>
          \A p \in StoredPositions :
              p <= lastProcessedPosition.bigint => p \in delivered

C14_Witness ==
    /\ checkpointDoc.exists
    /\ CheckpointPosition(checkpointDoc) = 2
    /\ StoredPositions = {0, 1, 2}
    /\ \A s \in StreamNames : streamDocs[s].exists
    /\ delivered = {0, 1, 2}

C15Step(c) ==
    /\ chain[c].pc = "loading" /\ chain'[c].pc # "loading" =>
          /\ lastProcessedPosition'
                = IF checkpointDoc.exists
                  THEN BigInt(CheckpointPosition(checkpointDoc))
                  ELSE Undefined
          /\ chain'[c].pc = "query"
          /\ chain'[c].after = lastProcessedPosition'
    /\ chain[c].pc = "query" /\ chain'[c].pc # "query" =>
          /\ Positions(chain'[c].page)
                = {p \in StoredPositions :
                      chain[c].after # Undefined => p > chain[c].after.bigint}
          /\ \A i, j \in 1..Len(chain'[c].page) :
                i < j => chain'[c].page[i].metadata.globalPosition.bigint
                          < chain'[c].page[j].metadata.globalPosition.bigint
    /\ Delivering(c) =>
          /\ resumePoint.exists =>
                \A p \in Positions(chain[c].page) :
                    p > CheckpointPosition(resumePoint)
          /\ checkpointDoc.exists =>
                \A p \in Positions(chain[c].page) :
                    p > CheckpointPosition(checkpointDoc)

\* C15: a new consumer instance with the same id resumes strictly after
\* the last persisted checkpoint: its start() takes the position of the
\* checkpoint document, every page it hands to a processor holds only
\* events with a global position greater than the checkpoint (the one found
\* when the instance was created and the one persisted at the moment), and
\* a page is made of all the stored events after the position its query
\* was built with, in ascending global position.
C15_ResumesAfterCheckpoint == [][\A c \in SinglePoll : C15Step(c)]_vars

C15_Witness ==
    /\ resumePoint.exists
    /\ CheckpointPosition(resumePoint) = 1
    /\ \E c \in SinglePoll :
          /\ chain[c].pc = "handle"
          /\ chain[c].after = BigInt(1)
          /\ Positions(chain[c].page) = {2}

\* chain c takes a step
ChainMoves(c) == chain'[c] # chain[c]

\* the retry budget of chain c's page is exhausted in this step
BudgetExhausted(c) ==
    /\ chain[c].pc = "handle"
    /\ chain'[c].pc \notin {"handle", "backoff", "save"}

\* the poll of chain c ends in this step after its budget was exhausted
FailedPollEnds(c) == chain[c].pc = "onError" /\ chain'[c].pc # "onError"

C16Step(c) ==
    /\ BudgetExhausted(c) \/ (ChainMoves(c) /\ chain[c].pc = "onError") =>
          /\ UNCHANGED <<checkpointDoc, lastProcessedPosition, isRunning>>
          /\ chain[c].attempt = maxRetries
          /\ chain[c].after = lastProcessedPosition
    /\ FailedPollEnds(c) /\ isRunning =>
          /\ chain'[c].pc = "timer"
          /\ pollingTimer' = Timeout(c)
    /\ chain[c].pc = "timer" /\ chain'[c].pc = "query" =>
          chain'[c].after = lastProcessedPosition
    /\ chain[c].pc = "query" /\ chain'[c].pc = "handle" =>
          \A p \in StoredPositions :
              (chain[c].after # Undefined => p > chain[c].after.bigint)
                  => p \in Positions(chain'[c].page)

\* C16: when the delivery of a page still fails after the retry budget is
\* exhausted, the persisted checkpoint and the in-memory position keep
\* their values and the running flag is not touched; a consumer that runs
\* schedules its next poll, whose query is built with the same position and
\* returns every stored event after it, the events of the failed page
\* among them.
C16_ExhaustedKeepsCheckpoint == [][\A c \in SinglePoll : C16Step(c)]_vars

C16_Witness ==
    \E c \in SinglePoll :
        /\ chain[c].pc = "onError"
        /\ chain[c].attempt = maxRetries
        /\ chain[c].after = BigInt(0)
        /\ Positions(chain[c].page) = {1, 2}
        /\ checkpointDoc.exists /\ CheckpointPosition(checkpointDoc) = 0
        /\ lastProcessedPosition = BigInt(0)
        /\ isRunning
        /\ pollingTimer = Timeout(c)

\* the page of chain c is delivered in this step: the last processor
\* returns
PageSucceeds(c) == chain[c].pc = "handle" /\ chain'[c].pc = "save"

RECURSIVE SumTo(_, _)
SumTo(f, n) == IF n = 0 THEN 0 ELSE f[n] + SumTo(f, n - 1)

C17Step(c) ==
    /\ PageSucceeds(c) =>
          /\ \A i \in 1..Len(processors) :
                (\A j \in 1..Len(processors) : j # i => chain[c].fails[j] = 0)
                    => /\ chain[c].fails[i] <= maxRetries
                       /\ chain[c].calls[i] = chain[c].fails[i] + 1
          /\ chain[c].calls[1] = chain[c].attempt + 1
          /\ chain[c].attempt = SumTo(chain[c].fails, Len(processors))
          /\ chain[c].calls[Len(processors)]
                = chain[c].fails[Len(processors)] + 1
          /\ lastProcessedPosition' = LastPosition(chain[c].page)
          /\ Positions(chain[c].page) \subseteq delivered'
    /\ chain[c].pc = "save" /\ chain'[c].pc # "save" =>
          /\ checkpointDoc'.exists
          /\ CheckpointPosition(checkpointDoc')
                = LastPosition(chain[c].page).bigint

\* C17: a processor that throws on its first f deliveries of a page and
\* then returns, the other processors never throwing and f <= maxRetries,
\* has been invoked exactly f + 1 times when the page succeeds (3 times for
\* f = 2): every attempt starts again with the first processor, and the
\* last processor returns once. The in-memory position then becomes the
\* page's last global position and the checkpoint saved next holds it.
C17_RetriesThenSucceeds == [][\A c \in SinglePoll : C17Step(c)]_vars

C17_Witness ==
    \E c \in SinglePoll :
        /\ chain[c].pc = "save"
        /\ chain[c].fails = <<2, 0>>
        /\ chain[c].calls = <<3, 1>>
        /\ lastProcessedPosition = LastPosition(chain[c].page)

C18Original(c) ==
    /\ FailedPollEnds(c) => chain[c].hooks = 1
    /\ PageSucceeds(c) => chain[c].hooks = 0

C18Step(c) ==
    /\ FailedPollEnds(c) =>
          /\ chain[c].hooks = Len(chain[c].page)
          /\ chain[c].index = Len(chain[c].page)
          /\ chain[c].attempt = maxRetries
    /\ ChainMoves(c) /\ chain[c].pc = "onError" /\ chain'[c].pc = "onError" =>
          /\ chain'[c].hooks = chain[c].hooks + 1
          /\ chain'[c].index = chain[c].index + 1
    /\ BudgetExhausted(c) => chain'[c].pc = "onError" /\ chain'[c].hooks = 1
    /\ chain'[c].hooks # chain[c].hooks /\ chain'[c].hooks # 0 =>
          chain'[c].pc = "onError"
    /\ PageSucceeds(c) => chain[c].hooks = 0

C19_CheckpointNeverRolledBack ==
    [][checkpointDoc.exists =>
          /\ checkpointDoc'.exists
          /\ CheckpointPosition(checkpointDoc')
                >= CheckpointPosition(checkpointDoc)]_vars

\* C20 as claimed: the polls of one consumer never overlap: at most one
\* poll is in progress and at most one next poll is scheduled.
C20_PollsNeverOverlap ==
    \A c, d \in PollChains :
        /\ Polling(c) /\ Polling(d) => c = d
        /\ chain[c].pc = "timer" /\ chain[d].pc = "timer" => c = d

----------------------------------------------------------------------------
(* Properties of start() and stop() *)

\* the call recorded is a start() that threw
Threw(call) == call \notin {NoCall, StopCall} /\ call.error # None

\* a poll of chain c begins in this step: its query is built
PollStarts(c) == chain[c].pc # "query" /\ chain'[c].pc = "query"

C21Step ==
    /\ lastCall' # lastCall /\ Threw(lastCall') =>
          /\ isRunning \/ Len(registered) = 0
          /\ UNCHANGED <<isRunning, chain, pollingTimer,
                         lastProcessedPosition, checkpointDoc, registered>>
    /\ isRunning \/ Len(registered) = 0 =>
          /\ \A c \in PollChains : chain'[c].pc = "loading" =>
                                        chain[c].pc = "loading"
          /\ lastCall' # lastCall /\ lastCall' \notin {NoCall, StopCall} =>
                Threw(lastCall')
    /\ Len(registered) = 0 =>
          /\ ~isRunning'
          /\ \A c \in PollChains : chain'[c].pc = "free"

\* C21: start() called on a consumer that is running, or that has no
\* processor registered, throws an error, begins no checkpoint load and no
\* poll and leaves the running flag, the position, the timer and the
\* checkpoint as they are; a consumer without processors never runs.
C21_StartFails == [][C21Step]_vars

C21_Witness ==
    /\ Threw(lastCall)
    /\ lastCall.error = [message |-> "Consumer is already running"]
    /\ isRunning
    /\ \E c \in SinglePoll : chain[c].pc = "handle"

\* start() of a consumer without processors has thrown
C21_NoProcessors ==
    /\ Threw(lastCall)
    /\ registered = <<>>
    /\ ~isRunning
    /\ \E s \in StreamNames : streamDocs[s].exists

\* C22 as claimed: stop() is cooperative and idempotent: once stop() has
\* been called, one or several times, also on a consumer never started, and
\* until start() is called again, isRunning is false, no timer is pending,
\* no new poll begins, and a poll in flight runs to its end without
\* scheduling a successor.
C22_StopHalts ==
    [][lastCall' = StopCall =>
          /\ ~isRunning'
          /\ pollingTimer' = Undefined
          /\ \A c \in PollChains :
                /\ chain'[c].pc # "timer"
                /\ lastCall = StopCall => ~PollStarts(c)]_vars

\* ---------------------------------------------------------------------
CheckpointAt(p) ==
    /\ checkpointDoc.exists
    /\ CheckpointPosition(checkpointDoc) = p

LastStoredPosition ==
    CHOOSE p \in StoredPositions : \A q \in StoredPositions : q <= p

\* C23: if the consumer keeps running, the store stays reachable and every
\* processor eventually succeeds on each page, then every appended event is
\* eventually delivered to every processor and the persisted checkpoint
\* eventually equals the global position of the last appended event
C23_EventuallyDelivered ==
    <>[](StoredPositions # {} =>
            /\ StoredPositions \subseteq delivered
            /\ CheckpointAt(LastStoredPosition))

C23_Witness ==
    /\ StoredPositions = 0..(MaxCounter - 1)
    /\ delivered = StoredPositions
    /\ CheckpointAt(MaxCounter - 1)
    /\ isRunning

\* ---------------------------------------------------------------------
\* Read models

\* the awaited set() of the document of the present entry returns
SetReturns == handler.pc = "set" /\ handler'.pc # "set"

SetDocId == Head(handler.entries).docId

\* the indices in the batch of the events of a document id
IndicesOf(docId, events) ==
    {i \in 1..Len(events) : DocumentId(ProjectionOptions, events[i]) = docId}

\* the last event of the batch that maps to the document id
LastEventOf(docId, events) ==
    events[CHOOSE i \in IndicesOf(docId, events) :
                \A j \in IndicesOf(docId, events) : j <= i]

\* the three events of a fresh cart, at the versions 0, 1 and 2
ThreeEvents ==
    <<CartEvent(ProductItemAdded(10, 3), "cart1", 0),
      CartEvent(ProductItemAdded(5, 2), "cart1", 1),
      CartEvent(DiscountApplied(10), "cart1", 2)>>

C25Step ==
    SetReturns /\ documents'[SetDocId] # Null =>
        /\ documents'[SetDocId]["_metadata"].streamPosition =
              String(LastEventOf(SetDocId, handler.events)
                        .metadata.streamPosition.bigint)
        /\ (handler.events = ThreeEvents /\ handler.before["cart1"] = Null) =>
              /\ StripMetadata(documents'["cart1"]) =
                    [productItemsCount |-> 15,
                     totalAmount |-> [num |-> 36, den |-> 1]]
              /\ documents'["cart1"]["_metadata"].streamPosition = <<2>>

\* C25: every read-model document that is stored carries
\* _metadata.streamPosition equal to the stream position of the last event
\* folded into it, as a decimal string; the three events of a fresh stream
\* (versions 0, 1, 2) yield {productItemsCount: 15, totalAmount: 36} with
\* streamPosition "2"
C25_StreamPositionOfLastEvent == [][C25Step]_vars

C25_Witness ==
    /\ handler.pc = "idle"
    /\ handler.events = ThreeEvents
    /\ documents["cart1"] # Null
    /\ documents["cart1"]["_metadata"].streamPosition = <<2>>
    /\ documents["cart1"].productItemsCount = 15

\* the value of docId is between the fold and the end of its set()
BeingSet(docId) == handler.pc = "set" /\ SetDocId = docId

\* C24: a read-model document is removed by absence: once the fold of a
\* batch for a document returns null, a read finds nothing at its path, no
\* flag either; a document exists exactly when the last fold for its id
\* returned non-null
C24_RemovedByAbsence ==
    \A docId \in DocumentIds :
        ~BeingSet(docId) =>
            /\ projected.folded[docId] = Null => documents[docId] = Null
            /\ documents[docId] # Null <=>
                  projected.folded[docId] \notin {None, Null}

C24_Witness ==
    \E docId \in DocumentIds :
        /\ ProjectionOptions.engine = "realtimeDBMultiStreamProjection"
        /\ handler.pc = "idle"
        /\ handler.before[docId] # Null
        /\ projected.folded[docId] = Null
        /\ documents[docId] = Null

\* handle() returns
HandleDone ==
    /\ handler.pc # "idle"
    /\ handler'.pc = "idle"
    /\ handler'.result = [returned |-> TRUE]

\* the content of a stored value: the document without its _metadata
Content(value) == IF value = Null THEN Null ELSE StripMetadata(value)

\* the content that is stored for a state
Stored(state) ==
    IF state = Null THEN Null ELSE serializeForFirebase(state, TRUE)

\* the left fold of evolve over the first n events of the batch that map
\* to the document id, in the order of the batch
RECURSIVE FoldOf(_, _, _, _)
FoldOf(docId, state, events, n) ==
    IF n = 0 THEN state
    ELSE LET before == FoldOf(docId, state, events, n - 1)
         IN  IF n \notin IndicesOf(docId, events) THEN before
             ELSE OptionsEvolve(ProjectionOptions, before, events[n])

C26Step ==
    /\ \A docId \in DocumentIds :
          documents'[docId] # documents[docId] =>
              IndicesOf(docId, handler.events) # {}
    /\ HandleDone /\ ProjectionOptions.engine = "realtimeDBMultiStreamProjection" =>
          \A docId \in DocumentIds :
              IF IndicesOf(docId, handler.events) = {}
              THEN documents'[docId] = handler.before[docId]
              ELSE Content(documents'[docId]) =
                      Stored(FoldOf(docId, Content(handler.before[docId]),
                                    handler.events, Len(handler.events)))

\* C26: handle() of the multi-stream projection partitions an ordered
\* batch by document id: when it returns, the content of each document
\* whose id occurs in the batch is the left fold of evolve over exactly the
\* events of the batch that map to the id, in batch order, from the content
\* stored before, whatever streams the events come from; a document whose
\* id does not occur in the batch is never written nor removed
C26_PartitionedByDocumentId == [][C26Step]_vars

C26_Witness ==
    /\ projection = ClientShoppingSummary.name
    /\ handler.pc = "idle"
    /\ handler.result = [returned |-> TRUE]
    /\ \E i, j \in 1..Len(handler.events) :
          /\ handler.events[i].metadata.streamName = "cart1"
          /\ handler.events[j].metadata.streamName = "cart2"
    /\ documents["client1"] # Null
    /\ "pending" \in DOMAIN documents["client1"]
    /\ documents["client1"].pending.productItemsCount = 4
    /\ documents["client2"] # Null

\* handle() ends with the error that evolve threw for the present entry
HandleFails ==
    /\ handler.pc = "read"
    /\ handler'.pc = "idle"
    /\ IsThrown(handler'.result)

C27Step ==
    HandleFails /\ ProjectionOptions.engine = "realtimeDBMultiStreamProjection" =>
        \A docId \in DocumentIds \ {Head(handler.entries).docId} :
            IndicesOf(docId, handler.events) # {} =>
                Content(documents'[docId]) =
                    Stored(FoldOf(docId, Content(handler.before[docId]),
                                  handler.events, Len(handler.events)))

\* C27 as claimed: per-document isolation: when evolve throws while the
\* events of one document id are folded, every other document id of the
\* batch, before or after the failing one, is still folded and written or
\* removed as if nothing had failed
C27_PerDocumentIsolation == [][C27Step]_vars

\* the call in flight was handed the batch of the call before it, which
\* returned
Redelivered ==
    /\ handler.again
    /\ projected.previous.result = [returned |-> TRUE]
    /\ projected.previous.events = handler.events

C28Step == HandleDone /\ Redelivered => documents' = handler.before

\* C28 as claimed: read-model documents are idempotent under redelivery: when
\* the batch that handle() was handed and has handled is handed to it once
\* more, the second call leaves every document as the first call left it
C28_IdempotentUnderRedelivery == [][C28Step]_vars

\* every event of the batch maps to the document id
AllOf(docId, events) ==
    \A i \in 1..Len(events) : DocumentId(ProjectionOptions, events[i]) = docId

\* the value a path holds after one call of handle() with the events, all
\* of its key, from the value it held
OneCall(events, snapshot) ==
    LET result == Projected(ProjectionOptions, events, snapshot)
    IN  IF result = Skipped \/ IsThrown(result) THEN snapshot ELSE result.set

\* the call in flight, handed B2, follows a call that was handed B1 and
\* returned, and both batches map to the document id
Incremental(docId) ==
    /\ ~handler.again
    /\ projected.previous.result = [returned |-> TRUE]
    /\ AllOf(docId, projected.previous.events)
    /\ AllOf(docId, handler.events)

C29Step ==
    \A docId \in DocumentIds :
        HandleDone /\ Incremental(docId) =>
            Content(documents'[docId]) =
                Content(OneCall(projected.previous.events \o handler.events,
                                projected.previous.before[docId]))

\* C29 as claimed: incremental projection equals one-shot projection: for
\* batches B1 and B2 of one document id, handling B1 and then B2 leaves the
\* document with the content that one call with B1 followed by B2 gives it,
\* for nullable and for initialState-seeded projections, also when the fold
\* of B1 is null
C29_IncrementalEqualsOneShot == [][C29Step]_vars

\* ---------------------------------------------------------------------
C30Step(a) ==
    LET streamName == appendCall[a].streamName
        lastEvent ==
            eventDocs'[streamName][EventId(streamDocs'[streamName].version)]
    IN  /\ Commits(a)
        /\ appendResult'[a].status = "ok"
        /\ appendCall[a].events # <<>>
        =>  /\ "lastEventGlobalPosition" \in DOMAIN appendResult'[a]
            /\ appendResult'[a].lastEventGlobalPosition
                  = BigInt(lastEvent.globalPosition)
            /\ lastEvent.globalPosition >= 0

\* C30 as claimed: every successful append returns lastEventGlobalPosition, a
\* non-negative integer equal to the global position assigned to the last
\* event of the appended batch
C30_ReturnsLastEventGlobalPosition ==
    [][\A a \in Appenders : C30Step(a)]_vars

----------------------------------------------------------------------------
(* Properties of the event store's consumer factory *)

\* the call recorded is a call of the factory
IsConsumerCall(call) == call \notin {NoCall, StopCall} /\ call.op = "consumer"

C31Step ==
    lastCall' # lastCall /\ IsConsumerCall(lastCall') =>
        IF IF lastCall'.config = Undefined THEN TRUE
           ELSE IF "consumerId" \notin DOMAIN lastCall'.config THEN TRUE
           ELSE lastCall'.config.consumerId = ""
        THEN /\ lastCall'.error =
                    [message |-> "consumerId is required for consumer"]
             /\ UNCHANGED <<isRunning, chain, pollingTimer,
                            lastProcessedPosition, checkpointDoc,
                            registered, resumePoint>>
        ELSE /\ lastCall'.error = None
             /\ ~isRunning'
             /\ pollingTimer' = Undefined
             /\ \A c \in PollChains : chain'[c].pc = "free"

\* the consumer returned by the factory has not been started since
Unstarted ==
    /\ IsConsumerCall(lastCall)
    /\ lastCall.error = None

\* C31: the event store's consumer factory called without a consumer id
\* throws 'consumerId is required' and creates no consumer (the running
\* flag, the polls, the timer, the position and the processors of the
\* present consumer stay as they are); called with a consumer id it
\* returns a consumer that is not running, and that consumer has no poll
\* and no timer as long as start() has not been called.
C31_FactoryNeedsConsumerId ==
    [][/\ C31Step
       /\ Unstarted /\ lastCall' = lastCall =>
             /\ ~isRunning'
             /\ pollingTimer' = Undefined
             /\ \A c \in PollChains : chain'[c].pc = "free"]_vars

C31_Witness ==
    /\ IsConsumerCall(lastCall)
    /\ lastCall.config = [processors |-> <<>>]
    /\ lastCall.error = [message |-> "consumerId is required for consumer"]
    /\ isRunning
    /\ \E c \in SinglePoll : chain[c].pc = "handle"

\* the factory has returned a consumer, which was started and runs
C31_Started ==
    /\ lastCall = StartCall(None)
    /\ registered = processors
    /\ isRunning

----------------------------------------------------------------------------
(* Properties of the delivery of a page to the processors *)

\* processor i is invoked in this step by chain c
Invoked(c, i) == chain'[c].calls[i] > chain[c].calls[i]

\* the events of a page are in strictly ascending global position
Ascending(page) ==
    \A i, j \in 1..Len(page) :
        i < j => page[i].metadata.globalPosition.bigint
                    < page[j].metadata.globalPosition.bigint

\* the page chain c holds after this step is the one it held before, or
\* the one its query returns in this step
SamePage(c) ==
    chain'[c].page = IF chain[c].pc = "query"
                     THEN PollEvents(chain[c].after)
                     ELSE chain[c].page

C32Step(c) ==
    /\ \A i \in 1..Len(processors) :
          Invoked(c, i) =>
              /\ chain'[c].pc = "handle"
              /\ chain'[c].index = i
              /\ chain'[c].calls[i] = chain[c].calls[i] + 1
              /\ \A j \in 1..Len(processors) : j # i => ~Invoked(c, j)
              /\ chain'[c].page # <<>>
              /\ Ascending(chain'[c].page)
              /\ SamePage(c)
              /\ IF i = 1
                 THEN chain[c].pc \in {"query", "backoff"}
                 ELSE /\ chain[c].pc = "handle"
                      /\ chain[c].index = i - 1
                      /\ chain'[c].fails = chain[c].fails
                      /\ chain'[c].attempt = chain[c].attempt
    /\ chain'[c].pc = "handle" =>
          \A i \in 1..(Len(processors) - 1) :
              chain'[c].calls[i + 1]
                  = chain'[c].calls[i] - chain'[c].fails[i]
                        - (IF chain'[c].index = i THEN 1 ELSE 0)

\* C32: a processor is invoked alone, with the whole page of the poll's
\* query in ascending global position; the first one at the beginning of
\* an attempt, processor i+1 in the step in which processor i, awaited
\* until then, returns without an error on the same attempt; so processor
\* i+1 has been invoked exactly as often as processor i has returned.
C32_OneAtATimeInOrder == [][\A c \in SinglePoll : C32Step(c)]_vars

C32_Witness ==
    \E c \in SinglePoll :
        /\ chain[c].pc = "handle"
        /\ chain[c].index = 2
        /\ chain[c].attempt = 1
        /\ chain[c].calls = <<2, 2>>
        /\ Len(chain[c].page) = 2

\* an attempt of the page of chain c begins in this step
AttemptBegins(c) ==
    chain'[c].pc = "handle" /\ chain[c].pc \in {"query", "backoff"}

C33Step(c) ==
    /\ chain[c].pc = "backoff" /\ chain'[c] # chain[c] =>
          /\ AttemptBegins(c)
          /\ chain'[c].page = chain[c].page
          /\ chain'[c].attempt = chain[c].attempt + 1
          /\ chain'[c].index = 1
          /\ Invoked(c, 1)
    /\ chain[c].pc = "handle" /\ chain'[c].pc = "backoff" =>
          /\ chain'[c].page = chain[c].page
          /\ chain[c].attempt < maxRetries
    /\ chain[c].pc = "handle" /\ chain'[c].pc \in {"handle", "save"} =>
          chain'[c].page = chain[c].page
    /\ chain'[c].pc \in {"handle", "backoff", "onError", "save"} =>
          /\ chain'[c].attempt <= maxRetries
          /\ chain'[c].calls[1] = chain'[c].attempt + 1
          /\ \A i \in 1..Len(processors) :
                chain'[c].calls[i] <= maxRetries + 1

\* C33: after a processor has thrown, the retry hands the page as it was
\* fetched, not queried again, to the first processor and from there to
\* all of them in order, those that had returned on it before included;
\* the attempts of a page within one poll number at most maxRetries + 1
\* and no processor is invoked more often than that for the page.
C33_RetrySamePageAllProcessors == [][\A c \in SinglePoll : C33Step(c)]_vars

C33_Witness ==
    \E c \in SinglePoll :
        /\ chain[c].pc = "handle"
        /\ chain[c].attempt = maxRetries
        /\ chain[c].index = 2
        /\ chain[c].fails = <<0, maxRetries>>
        /\ chain[c].calls = <<maxRetries + 1, maxRetries + 1>>
        /\ Positions(chain[c].page) # StoredPositions
        /\ lastProcessedPosition = Undefined

----------------------------------------------------------------------------
(* Properties of the pages of a poll *)

\* the stored global positions after the position a query was built with
Eligible(after) ==
    {p \in StoredPositions : after # Undefined => p > after.bigint}

\* the query of chain c returns in this step
PollQueryReturns(c) == chain[c].pc = "query" /\ chain'[c].pc # "query"

\* event e of a page is the document of some stream with e's global
\* position, and carries that stream's name and the document's version
Carried(e) ==
    \E ref \in EventRefs :
        /\ RefData(ref).globalPosition = e.metadata.globalPosition.bigint
        /\ e.metadata.streamName = ref[1]
        /\ e.metadata.streamPosition = BigInt(RefData(ref).streamVersion)
        /\ ref[2] = EventId(e.metadata.streamPosition.bigint)
        /\ e.type = RefData(ref).type

C34Step(c) ==
    /\ chain'[c].pc = "query" /\ chain[c].pc # "query" =>
          /\ chain'[c].after = lastProcessedPosition'
          /\ ~checkpointDoc.exists /\ chain[c].pc = "loading" =>
                chain'[c].after = Undefined
    /\ PollQueryReturns(c) =>
          LET page == chain'[c].page
              eligible == Eligible(chain[c].after)
          IN  /\ Len(page) <= 100
              /\ Len(page) = IF Cardinality(eligible) <= 100
                             THEN Cardinality(eligible) ELSE 100
              /\ Cardinality(Positions(page)) = Len(page)
              /\ Positions(page) \subseteq eligible
              /\ \A p \in Positions(page) :
                    \A q \in eligible \ Positions(page) : p < q
              /\ Ascending(page)
              /\ chain[c].after = Undefined /\ page # <<>> =>
                    page[1].metadata.globalPosition = BigInt(0)
              /\ \A i \in 1..Len(page) : Carried(page[i])
              /\ page # <<>> <=> chain'[c].pc = "handle"

\* C34: the query of a poll is built with the consumer's position of that
\* moment, which is absent when start() found no checkpoint; it returns a
\* page of at most 100 events: the stored events of all streams with the
\* lowest global positions after that position, each once, in strictly
\* ascending global position, from global position 0 on when the position
\* is absent; each event carries the name of the stream that holds its
\* document and the stream version of that document as its stream
\* position; the processors are handed a page that is not empty.
C34_PageOfLowestPositions == [][\A c \in SinglePoll : C34Step(c)]_vars

C34_Witness ==
    \E c \in SinglePoll :
        /\ chain[c].pc = "handle"
        /\ chain[c].after = Undefined
        /\ Len(chain[c].page) = 100
        /\ Cardinality(StoredPositions) = 102
        /\ chain[c].page[100].metadata.streamName = "s1"
        /\ chain[c].page[100].metadata.streamPosition = BigInt(66)
        /\ chain[c].page[99].metadata.streamName = "s2"

\* the second page of a store of 102 events holds the last two
C34_SecondPage ==
    \E c \in SinglePoll :
        /\ chain[c].pc = "handle"
        /\ chain[c].after = BigInt(99)
        /\ Positions(chain[c].page) = {100, 101}
        /\ checkpointDoc.exists

----------------------------------------------------------------------------
(* Properties of a poll whose query fails *)

\* the query of chain c has failed and its poll ends in this step
PollCaught(c) == chain[c].pc = "failed" /\ chain'[c].pc # "failed"

C35Step(c) ==
    /\ chain'[c].pc = "failed" =>
          /\ chain[c].pc \in {"query", "failed"}
          /\ chain'[c].attempt = 0
          /\ chain'[c].page = <<>>
          /\ \A i \in 1..Len(processors) : chain'[c].calls[i] = 0
          /\ chain'[c].hooks = 0
    /\ chain[c].pc = "failed" =>
          /\ chain'[c].pc \in {"failed", "timer", "free"}
          /\ UNCHANGED <<checkpointDoc, lastProcessedPosition, delivered>>
    /\ PollCaught(c) =>
          /\ isRunning' = isRunning
          /\ IF isRunning
             THEN /\ chain'[c].pc = "timer"
                  /\ pollingTimer' = Timeout(c)
             ELSE /\ chain'[c].pc = "free"
                  /\ pollingTimer' = pollingTimer
    /\ chain[c].pc = "timer" /\ chain'[c].pc = "query" =>
          chain'[c].after = lastProcessedPosition

\* C35: when the query of a poll fails, the poll invokes no processor and
\* no error hook and spends nothing of the retry budget; until it ends the
\* checkpoint document and the in-memory position keep their values; it
\* ends without touching the running flag, and a consumer that runs has
\* its next poll on the timer, which will query from the same position.
C35_QueryFailureSkipsPoll == [][\A c \in SinglePoll : C35Step(c)]_vars

C35_Witness ==
    \E c \in SinglePoll :
        /\ chain[c].pc = "failed"
        /\ isRunning
        /\ checkpointDoc.exists
        /\ chain[c].after = BigInt(0)
        /\ Eligible(chain[c].after) # {}

----------------------------------------------------------------------------
(* Properties of the state a fold starts from *)

\* the fold of the events of a document id begins in this step
FoldBegins == handler.pc = "read" /\ handler'.start # None

C36Step ==
    FoldBegins =>
        LET stored == documents[Head(handler.entries).docId]
        IN  handler'.start =
                IF stored # Null THEN StripMetadata(stored)
                ELSE IF ProjectionOptions.initialState
                THEN OptionsInitialState(ProjectionOptions)
                ELSE Null

\* C36 as claimed: the state handed to the first evolve of a document id
\* is the stored document without its _metadata when there is one,
\* initialState() when there is none and initialState is declared, and
\* null when there is none and no initialState is declared.
C36_FoldStartsFromStrippedDocument == [][C36Step]_vars

\* the same for the multi-stream projection alone, and what the
\* projection of realtimeDBProjection.ts does in its place: it starts from
\* the stored document as it is, its _metadata included
C36_MultiStream ==
    [][ProjectionOptions.engine = "realtimeDBMultiStreamProjection" =>
            C36Step]_vars

C36_StartsFromStoredDocument ==
    [][/\ ProjectionOptions.engine = "realtimeDBProjection"
       /\ FoldBegins
       /\ documents[Head(handler.entries).docId] # Null
       => handler'.start = documents[Head(handler.entries).docId]]_vars

----------------------------------------------------------------------------
(* Properties of the global counter *)

\* the counter counts the stored events, and their global positions are
\* the numbers below it, each held by one event
CounterMatchesStore ==
    /\ NextPosition(counterDoc) = StoredCount(StreamNames)
    /\ StoredPositions = 0..(NextPosition(counterDoc) - 1)
    /\ Cardinality(StoredPositions) = Cardinality(EventRefs)

\* the call of appender a is rejected in this step
Rejected(a) ==
    /\ appendPc[a] # "done"
    /\ appendPc'[a] = "done"
    /\ appendResult'[a].status # "ok"

C37Step(a) ==
    Rejected(a) =>
        /\ appendResult'[a].status
                \in {"ExpectedVersionConflictError", "Error"}
        /\ counterDoc' = counterDoc
        /\ eventDocs' = eventDocs

\* C37: in every reachable state the counter document's value (0 while
\* there is none) is the number of event documents stored over all
\* streams, and the global positions of the stored events are exactly the
\* numbers from 0 to the counter minus one, each held by one event; the
\* step that rejects an append, for a version conflict or an empty batch,
\* leaves the counter and the events as they are.
C37_CounterCountsStoredEvents ==
    [][/\ CounterMatchesStore
       /\ CounterMatchesStore'
       /\ \A a \in Appenders : C37Step(a)]_vars

C37_Witness ==
    /\ appendPc = [a \in Appenders |-> "done"]
    /\ appendResult["a1"].status = "ExpectedVersionConflictError"
    /\ appendResult["a2"].status = "Error"
    /\ NextPosition(counterDoc) = 3
    /\ StoredPositions = {0, 1, 2}
    /\ \A s \in StreamNames : streamDocs[s].exists

----------------------------------------------------------------------------
(* Properties of a read that appends interleave with *)

\* C38 as claimed: every event a read returns has a stream position less
\* than or equal to the currentStreamVersion the same call returns, also
\* when an append to the stream commits between the read of the stream
\* document and the query of the events.
C38_ReadConsistentWithItself ==
    \A r \in Readers :
        readPc[r] = "done" /\ readResult[r].status = "ok" =>
            \A i \in 1..Len(readResult[r].events) :
                readResult[r].events[i].metadata.streamPosition.bigint
                    <= readResult[r].currentStreamVersion.bigint

\* what holds in its place: the events returned are stored events of the
\* stream, and none is beyond the version the stream has when the query
\* returns
C38_ReadWithinStoredVersion ==
    [][\A r \in Readers :
          QueryReturns(r) =>
              \A i \in 1..Len(readResult'[r].events) :
                  readResult'[r].events[i].metadata.streamPosition.bigint
                      <= streamDocs[readCall[r].streamName].version]_vars

----------------------------------------------------------------------------
(* The in-memory position and the persisted checkpoint *)

\* no poll of the consumer is in flight and none is being started
Idle == \A c \in PollChains : chain[c].pc \in {"free", "timer"}

\* the in-memory position and the checkpoint document are both absent, or
\* they hold the same global position
PositionIsCheckpoint ==
    IF lastProcessedPosition = Undefined
    THEN LoadCheckpoint(checkpointDoc) = Undefined
    ELSE /\ checkpointDoc.exists
         /\ CheckpointPosition(checkpointDoc) = lastProcessedPosition.bigint

\* C39: whenever no poll of a running consumer is in flight, its in-memory
\* last-processed position equals its persisted checkpoint (both absent,
\* or the same global position), also after a poll in which the
\* processors succeeded but the checkpoint write failed.
C39_PositionEqualsCheckpoint == (isRunning /\ Idle) => PositionIsCheckpoint

\* the in-memory position is never behind the persisted checkpoint of a
\* running consumer between polls
C39_PositionNotBehindCheckpoint ==
    (isRunning /\ Idle /\ checkpointDoc.exists) =>
        /\ lastProcessedPosition # Undefined
        /\ CheckpointPosition(checkpointDoc) <= lastProcessedPosition.bigint

\* a running consumer between polls whose position is ahead of its
\* checkpoint
C39_AheadOfCheckpoint ==
    /\ isRunning
    /\ Idle
    /\ lastProcessedPosition # Undefined
    /\ ~checkpointDoc.exists

----------------------------------------------------------------------------
(* canHandle *)

\* the events of a batch whose type is in the canHandle list
Handled(options, events) ==
    SelectSeq(events, LAMBDA event : event.type \in options.canHandle)

\* the document about to be set carries the stream position of the last
\* event of its group whose type is in the canHandle list
PositionOfHandled ==
    (handler.pc = "set" /\ handler.value # Null) =>
        LET events == Handled(ProjectionOptions,
                              Head(handler.entries).events)
        IN  /\ events # <<>>
            /\ handler.value["_metadata"].streamPosition
                  = PositionToString(LastStreamPosition(events))

\* C40: canHandle is an allow-list: evolve of a projection is invoked
\* only with events whose type is in the projection's canHandle list;
\* events of other types in a delivered batch neither reach evolve nor
\* move the streamPosition of the document's _metadata.
C40_CanHandleIsAllowList ==
    /\ \A i \in 1..Len(handler.evolved) :
          handler.evolved[i].type \in ProjectionOptions.canHandle
    /\ PositionOfHandled

\* realtimeDBProjection behind handleProjections is not called for a
\* batch none of whose events has a type of the canHandle list
C40_BatchWithoutHandledSkipped ==
    (ProjectionOptions.engine = "realtimeDBProjection"
        /\ handler.evolved # <<>>) =>
        Handled(ProjectionOptions, handler.evolved) # <<>>

\* an event outside the canHandle list was handed to evolve
C40_OtherTypeEvolved ==
    \E i \in 1..Len(handler.evolved) :
        handler.evolved[i].type \notin ProjectionOptions.canHandle

====

